---------------------------- MODULE Spec2Model ----------------------------
(***************************************************************************)
(* A model of the application orchestration engine of hh-auto: the dedup  *)
(* ledger (hh_bot/bot/state.py), the two filter stages                    *)
(* (hh_bot/bot/filters.py), the session loop (hh_bot/bot/runner.py) and  *)
(* the apply flow (hh_bot/scraper/apply.py).                               *)
(*                                                                         *)
(* Text is modelled as a sequence of one-character strings, so that        *)
(* str.lower(), the `in` substring test, str.strip() and f-string          *)
(* concatenation are computed rather than assumed.  The fixed literals of  *)
(* the code ("already_seen", "blocked_keyword:", ...) are single elements  *)
(* of such a sequence.                                                     *)
(***************************************************************************)
EXTENDS Integers, Sequences, FiniteSets, TLC

VARIABLES
    conn,               \* StateDB._conn: the tables as this connection sees them
    disk,               \* the committed content of the database file
    call,               \* the StateDB call in progress (statements run, not committed)
    now,                \* the clock read by datetime.utcnow()
    marked,             \* history: ids whose mark_applied/mark_skipped returned since the last clear_all
    mark_applied_calls, \* history: per id, the mark_applied calls that returned since the last clear_all
    cfg,                \* the configuration singleton returned by get_config()
    pc,                 \* position of the process in main.run / run_session
    page_num,           \* run_session: index of the search page
    cards,              \* run_session: the cards of the current search page
    idx,                \* run_session: position in cards (1-based)
    card,               \* the VacancyCard being processed
    qf,                 \* result of quick_filter for card
    details,            \* the VacancyDetails fetched for card
    df,                 \* result of deep_filter for details
    stats,              \* SessionStats
    gotos,              \* history: page navigations (page.goto) of the running process
    attempt,            \* the call of apply_to_vacancy that has returned or raised
    gen,                \* the call of generate_cover_letter in progress: position, provider calls made, result
    cut,                \* a text under post-processing, with its budget and the results
    cli                 \* the run command: cli_opts, config._cli_overrides, the parsed file

vars == <<conn, disk, call, now, marked, mark_applied_calls, cfg, pc, page_num,
          cards, idx, card, qf, details, df, stats, gotos, attempt, gen, cut, cli>>

ledgerVars == <<conn, disk, call, marked, mark_applied_calls>>
sessionVars == <<pc, page_num, cards, idx, card, qf, details, df, stats, gotos,
                 attempt>>
letterVars == <<gen, cut, cli>>

-----------------------------------------------------------------------------
(* Bounds of the model *)

NumIds == 2          \* number of distinct listing ids
MaxTime == 1         \* the clock takes the values 0..MaxTime
MaxCards == 1        \* a search page holds at most MaxCards cards

Ids == 1..NumIds
Times == 0..MaxTime

-----------------------------------------------------------------------------
(* Text *)

\* str.lower() on one character of the model alphabet
LowerChar(c) ==
    CASE c = "A" -> "a"
      [] c = "B" -> "b"
      [] c = "C" -> "c"
      [] OTHER -> c

\* str.lower()
lower(s) == [i \in 1..Len(s) |-> LowerChar(s[i])]

\* Python's `needle in hay` on strings
Contains(needle, hay) ==
    \E k \in 0..(Len(hay) - Len(needle)) :
        \A i \in 1..Len(needle) : hay[k + i] = needle[i]

IsSpace(c) == c \in {" ", "\n"}

RECURSIVE lstrip(_)
lstrip(s) == IF s # <<>> /\ IsSpace(Head(s)) THEN lstrip(Tail(s)) ELSE s

RECURSIVE rstrip(_)
rstrip(s) ==
    IF s # <<>> /\ IsSpace(s[Len(s)]) THEN rstrip(SubSeq(s, 1, Len(s) - 1)) ELSE s

\* str.strip()
strip(s) == rstrip(lstrip(s))

-----------------------------------------------------------------------------
(* The ledger: StateDB *)

\* The two tables created by _init_schema, empty.
EmptyDB == [applied_vacancies |-> {}, skipped_vacancies |-> {}]

\* INSERT OR REPLACE into a table whose PRIMARY KEY is vacancy_id: a row with
\* the same key is deleted, then the new row is inserted.
InsertOrReplaceDup(table, row) == table \cup {row}
InsertOrReplace(table, row) ==
    {r \in table : r.vacancy_id # row.vacancy_id} \cup {row}

has_applied(db, vacancy_id) ==
    \E r \in db.applied_vacancies : r.vacancy_id = vacancy_id

has_seenAppliedOnly(db, vacancy_id) == has_applied(db, vacancy_id)
has_seenSkippedOnly(db, vacancy_id) ==
    \E r \in db.skipped_vacancies : r.vacancy_id = vacancy_id
has_seen(db, vacancy_id) ==
    IF has_applied(db, vacancy_id)
    THEN TRUE
    ELSE \E r \in db.skipped_vacancies : r.vacancy_id = vacancy_id

\* The INSERT OR REPLACE statement of mark_applied (the commit follows).
mark_applied_executeMoves(db, vacancy_id, title, employer, url, at) ==
    [applied_vacancies |->
        InsertOrReplace(db.applied_vacancies,
            [vacancy_id |-> vacancy_id, title |-> title, employer |-> employer,
             url |-> url, applied_at |-> at, status |-> "applied"]),
     skipped_vacancies |->
        {r \in db.skipped_vacancies : r.vacancy_id # vacancy_id}]
mark_applied_execute(db, vacancy_id, title, employer, url, at) ==
    [db EXCEPT !.applied_vacancies =
        InsertOrReplace(@,
            [vacancy_id |-> vacancy_id, title |-> title, employer |-> employer,
             url |-> url, applied_at |-> at, status |-> "applied"])]

\* The INSERT OR REPLACE statement of mark_skipped (the commit follows).
mark_skipped_execute(db, vacancy_id, title, employer, url, at, reason) ==
    [db EXCEPT !.skipped_vacancies =
        InsertOrReplace(@,
            [vacancy_id |-> vacancy_id, title |-> title, employer |-> employer,
             url |-> url, skipped_at |-> at, reason |-> reason])]

\* get_stats: the two COUNT(*) results.
total_applied(db) == Cardinality(db.applied_vacancies)
total_skipped(db) == Cardinality(db.skipped_vacancies)

-----------------------------------------------------------------------------
(* The filters: quick_filter and deep_filter *)

FilterResult(skip, reason) == [skip |-> skip, reason |-> reason]

\* The `for kw in blocked: if kw.lower() in text_lower: return ...` loop:
\* the index of the first entry of `blocked` found in text_lower, 0 if none.
RECURSIVE first_blocked(_, _, _)
first_blocked(blocked, i, text_lower) ==
    IF i > Len(blocked) THEN 0
    ELSE IF Contains(lower(blocked[i]), text_lower) THEN i
    ELSE first_blocked(blocked, i + 1, text_lower)

quick_filterDenylistFirst(c, db, config) ==
    LET kw  == first_blocked(config.filters.blocked_keywords, 1, lower(c.title))
        emp == first_blocked(config.filters.blocked_employers, 1, lower(c.employer))
    IN  IF kw # 0
        THEN FilterResult(TRUE,
                <<"blocked_keyword:">> \o config.filters.blocked_keywords[kw])
        ELSE IF emp # 0
        THEN FilterResult(TRUE,
                <<"blocked_employer:">> \o config.filters.blocked_employers[emp])
        ELSE IF has_seen(db, c.vacancy_id)
        THEN FilterResult(TRUE, <<"already_seen">>)
        ELSE FilterResult(FALSE, <<>>)
quick_filter(c, db, config) ==
    LET kw  == first_blocked(config.filters.blocked_keywords, 1, lower(c.title))
        emp == first_blocked(config.filters.blocked_employers, 1, lower(c.employer))
    IN  IF has_seen(db, c.vacancy_id)
        THEN FilterResult(TRUE, <<"already_seen">>)
        ELSE IF kw # 0
        THEN FilterResult(TRUE,
                <<"blocked_keyword:">> \o config.filters.blocked_keywords[kw])
        ELSE IF emp # 0
        THEN FilterResult(TRUE,
                <<"blocked_employer:">> \o config.filters.blocked_employers[emp])
        ELSE FilterResult(FALSE, <<>>)

deep_filterTestBeforeExternal(d, config) ==
    IF d.already_applied THEN FilterResult(TRUE, <<"already_applied">>)
    ELSE IF d.archived THEN FilterResult(TRUE, <<"archived">>)
    ELSE IF d.has_test /\ config.filters.skip_with_tests
    THEN FilterResult(TRUE, <<"has_test">>)
    ELSE IF d.is_external /\ config.filters.skip_direct_vacancies
    THEN FilterResult(TRUE, <<"external_link">>)
    ELSE IF d.response_letter_required
            /\ (~config.cover_letter.enabled
                \/ strip(config.cover_letter.template) = <<>>)
    THEN FilterResult(TRUE, <<"letter_required_no_template">>)
    ELSE FilterResult(FALSE, <<>>)
deep_filter(d, config) ==
    IF d.already_applied THEN FilterResult(TRUE, <<"already_applied">>)
    ELSE IF d.archived THEN FilterResult(TRUE, <<"archived">>)
    ELSE IF d.is_external /\ config.filters.skip_direct_vacancies
    THEN FilterResult(TRUE, <<"external_link">>)
    ELSE IF d.has_test /\ config.filters.skip_with_tests
    THEN FilterResult(TRUE, <<"has_test">>)
    ELSE IF d.response_letter_required
            /\ (~config.cover_letter.enabled
                \/ strip(config.cover_letter.template) = <<>>)
    THEN FilterResult(TRUE, <<"letter_required_no_template">>)
    ELSE FilterResult(FALSE, <<>>)

-----------------------------------------------------------------------------
(* Values *)

\* Config, restricted to the fields read by the filters, the session loop and
\* the apply flow.  Arguments: blocked_keywords, blocked_employers,
\* skip_with_tests, skip_direct_vacancies, cover_letter.enabled,
\* cover_letter.template, search.max_pages,
\* limits.max_applications_per_session.  auth, cover_letter.ai and
\* resume.preferred_title get the defaults of AuthConfig, AIGeneratorConfig
\* and ResumeConfig; auth.name is read by the letter generators next to
\* auth.telegram.
Config(keywords, employers, with_tests, direct, enabled, template, max_pages, max_apps) ==
    [filters |-> [skip_with_tests |-> with_tests,
                  skip_direct_vacancies |-> direct,
                  blocked_keywords |-> keywords,
                  blocked_employers |-> employers],
     auth |-> [email |-> <<>>, telegram |-> <<>>, name |-> <<>>],
     cover_letter |-> [enabled |-> enabled, template |-> template,
                       ai |-> [enabled |-> FALSE, api_key |-> <<>>,
                               model |-> "deepseek/deepseek-chat:free"]],
     resume |-> [preferred_title |-> <<>>],
     search |-> [max_pages |-> max_pages],
     limits |-> [max_applications_per_session |-> max_apps]]

\* Config.use_ai_cover_letter
use_ai_cover_letter(config) ==
    config.cover_letter.enabled /\ config.cover_letter.ai.enabled

\* "https://hh.ru" + "/vacancy/<id>", as _parse_single_card normalises it
UrlOf(id) == <<"https://hh.ru/vacancy/", ToString(id)>>

VacancyCard(vacancy_id, title, employer) ==
    [vacancy_id |-> vacancy_id, title |-> title, employer |-> employer,
     url |-> UrlOf(vacancy_id)]

\* Arguments: vacancy_id, title, employer, has_test, response_letter_required,
\* already_applied, is_external, archived.
VacancyDetails(vacancy_id, title, employer, test, letter, applied, external, archived) ==
    [vacancy_id |-> vacancy_id, title |-> title, employer |-> employer,
     url |-> UrlOf(vacancy_id), has_test |-> test,
     response_letter_required |-> letter,
     already_applied |-> applied, is_external |-> external,
     archived |-> archived]

\* SessionStats()
NewStats == [applied |-> 0, skipped |-> 0, errors |-> 0, skip_reasons |-> <<>>]

\* stats.skipped += 1; stats.skip_reasons[r] = stats.skip_reasons.get(r, 0) + 1
\* (the dict is a function whose domain is the set of its keys)
Get(d, k, default) == IF k \in DOMAIN d THEN d[k] ELSE default
CountSkipNoHistogram(st, r) == [st EXCEPT !.skipped = @ + 1]
CountSkip(st, r) ==
    [st EXCEPT !.skipped = @ + 1,
               !.skip_reasons =
                   [k \in (DOMAIN @) \cup {r} |->
                       IF k = r THEN Get(@, r, 0) + 1 ELSE @[k]]]

\* Placeholders for the locals of run_session while they hold nothing.
NoCard == VacancyCard(0, <<>>, <<>>)
NoDetails == VacancyDetails(0, <<>>, <<>>, FALSE, FALSE, FALSE, FALSE, FALSE)
NoResult == FilterResult(FALSE, <<"-">>)

\* No StateDB call in progress, and none has returned in this process yet.
NoCall == [phase |-> "idle", op |-> "none", stmts |-> 0, vacancy_id |-> 0,
           title |-> <<>>, employer |-> <<>>, url |-> <<>>, at |-> 0,
           reason |-> <<>>]

-----------------------------------------------------------------------------
(* The apply flow: apply_to_vacancy and its helpers.  A page is the script  *)
(* of what the site shows at each probe of one attempt; the result is how   *)
(* the call ends, with the steps it took on the page in order.              *)

\* ResumeInfo, and the None of Optional[ResumeInfo]
ResumeInfo(title) == [present |-> TRUE, title |-> title]
NoResumeInfo == [present |-> FALSE, title |-> <<>>]

\* `resume_info and resume_info.title`
has_title(resume_info) == resume_info.present /\ resume_info.title # <<>>

\* How a call ends: `result` is "True" or "False" for a returned value,
\* "ApplyError" (with its message in `error`) or "Exception" for a raised one.
Outcome(result, error, steps, resume_clicks) ==
    [result |-> result, error |-> error, steps |-> steps,
     resume_clicks |-> resume_clicks]

\* _handle_location_warning_modal: the warning is looked up and, when it is
\* there with its continue button, dismissed.
handle_location_warning_modal(location) ==
    IF location = "present" THEN <<"probe_location", "dismiss_location">>
    ELSE <<"probe_location">>

\* _handle_photo_suggestion_modal that takes a timeout of its wait for the
\* prompt
handle_photo_suggestion_modalAlwaysDismisses(photo) == <<"probe_photo", "dismiss_photo">>

\* _handle_photo_suggestion_modal: closed by its button or by Escape.
handle_photo_suggestion_modal(photo) ==
    IF photo THEN <<"probe_photo", "dismiss_photo">> ELSE <<"probe_photo">>

\* What a later probe of the same attempt finds: a dismissed prompt is gone, a
\* location warning without a continue button is still there.
location_left(location) == IF location = "present" THEN "absent" ELSE location

\* _select_resume: the indices of the resume items it clicks, in order.
RECURSIVE first_matching(_, _, _)
first_matching(resume_items, i, wanted_lower) ==
    IF i > Len(resume_items) THEN 0
    ELSE IF Contains(wanted_lower, lower(resume_items[i])) THEN i
    ELSE first_matching(resume_items, i + 1, wanted_lower)

select_resumeAlwaysFirst(resume_items, preferred_title) ==
    IF Len(resume_items) = 0 THEN <<>> ELSE <<1>>
select_resume(resume_items, preferred_title) ==
    IF Len(resume_items) = 0 THEN <<>>
    ELSE LET m == IF preferred_title # <<>>
                  THEN first_matching(resume_items, 1, lower(preferred_title))
                  ELSE 0
         IN  IF m # 0 THEN <<m>> ELSE <<1>>

\* The letter text is produced by generate_cover_letter when the resume was
\* parsed, by cfg.cover_letter.template.format otherwise.
letter_source(resume_info) ==
    IF has_title(resume_info) THEN "generate_cover_letter" ELSE "format_template"

\* _fill_cover_letter: nothing without a letter field or with cover letters
\* disabled; otherwise the text is produced and typed.  `raised` tells that
\* human_type_locator raised.
fill_cover_letter(p, resume_info, config) ==
    IF ~p.letter_field \/ ~config.cover_letter.enabled
    THEN [raised |-> FALSE, steps |-> <<>>]
    ELSE IF p.typing_raises
    THEN [raised |-> TRUE, steps |-> <<letter_source(resume_info)>>]
    ELSE [raised |-> FALSE,
          steps |-> <<letter_source(resume_info), "type_letter">>]

\* _add_cover_letter_after_quick_apply
add_cover_letter_after_quick_apply(p, resume_info, config) ==
    IF p.letter_form \in {"absent", "hidden", "no_textarea"}
    THEN [raised |-> FALSE, ret |-> FALSE, steps |-> <<>>]
    ELSE IF ~config.cover_letter.enabled
    THEN [raised |-> FALSE, ret |-> FALSE, steps |-> <<>>]
    ELSE IF p.typing_raises
    THEN [raised |-> TRUE, ret |-> FALSE,
          steps |-> <<letter_source(resume_info)>>]
    ELSE IF p.letter_form = "no_submit"
    THEN [raised |-> FALSE, ret |-> FALSE,
          steps |-> <<letter_source(resume_info), "type_letter">>]
    ELSE [raised |-> FALSE, ret |-> TRUE,
          steps |-> <<letter_source(resume_info), "type_letter", "submit_letter">>]

\* _handle_response_modal, giving up quietly when the submit control is missing
handle_response_modalGivesUp(p, preferred_resume_title, resume_info, config) ==
    IF p.questions /\ config.filters.skip_with_tests
    THEN Outcome("False", <<>>, <<"modal">>, <<>>)
    ELSE
    LET clicks == select_resume(p.resumes, preferred_resume_title)
        fill == fill_cover_letter(p, resume_info, config)
        before == <<"modal">>
                    \o handle_location_warning_modal(location_left(p.location))
                    \o handle_photo_suggestion_modal(FALSE)
                    \o <<"select_resume">> \o fill.steps
    IN  IF fill.raised THEN Outcome("Exception", <<>>, before, clicks)
        ELSE IF ~p.submit_btn THEN Outcome("False", <<>>, before, clicks)
        ELSE IF p.after_success
        THEN Outcome("True", <<>>, before \o <<"submit">>, clicks)
        ELSE IF Len(p.error_el) > 0
        THEN Outcome("ApplyError", <<"Apply error in modal: ">> \o p.error_el[1],
                     before \o <<"submit">>, clicks)
        ELSE Outcome("True", <<>>, before \o <<"submit">>, clicks)

\* _handle_response_modal
handle_response_modal(p, preferred_resume_title, resume_info, config) ==
    IF p.questions /\ config.filters.skip_with_tests
    THEN Outcome("False", <<>>, <<"modal">>, <<>>)
    ELSE
    LET clicks == select_resume(p.resumes, preferred_resume_title)
        fill == fill_cover_letter(p, resume_info, config)
        before == <<"modal">>
                    \o handle_location_warning_modal(location_left(p.location))
                    \o handle_photo_suggestion_modal(FALSE)
                    \o <<"select_resume">> \o fill.steps
    IN  IF fill.raised THEN Outcome("Exception", <<>>, before, clicks)
        ELSE IF ~p.submit_btn
        THEN Outcome("ApplyError", <<"Submit button not found in modal">>,
                     before, clicks)
        ELSE IF p.after_success
        THEN Outcome("True", <<>>, before \o <<"submit">>, clicks)
        ELSE IF Len(p.error_el) > 0
        THEN Outcome("ApplyError", <<"Apply error in modal: ">> \o p.error_el[1],
                     before \o <<"submit">>, clicks)
        ELSE Outcome("True", <<>>, before \o <<"submit">>, clicks)

\* _handle_response_page
handle_response_page(p, preferred_resume_title, resume_info, config) ==
    LET after == add_cover_letter_after_quick_apply(p, resume_info, config)
        clicks == select_resume(p.resumes, preferred_resume_title)
        fill == fill_cover_letter(p, resume_info, config)
        probes == <<"page">>
                    \o handle_location_warning_modal(location_left(p.location))
                    \o after.steps
        before == probes \o <<"select_resume">> \o fill.steps
    IN  IF after.raised THEN Outcome("Exception", <<>>, probes, <<>>)
        ELSE IF fill.raised THEN Outcome("Exception", <<>>, before, clicks)
        ELSE IF ~p.submit_btn
        THEN Outcome("ApplyError", <<"Submit button not found on response page">>,
                     before, clicks)
        ELSE Outcome("True", <<>>, before \o <<"submit">>, clicks)

\* The three inline success selectors, tried in order from selector i: the
\* first one that matches returns True, unless the deferred letter step raises
\* inside the `try`, which is swallowed and the loop goes on.  `returned` tells
\* whether the loop returned; `steps` accumulates what was done.
NumSuccessSelectors == 3
RECURSIVE inline_success(_, _, _, _, _)
inline_success(p, i, resume_info, config, steps) ==
    IF i > NumSuccessSelectors THEN [returned |-> FALSE, steps |-> steps]
    ELSE IF i \notin p.success_sel
    THEN inline_success(p, i + 1, resume_info, config, steps)
    ELSE IF ~has_title(resume_info)
    THEN [returned |-> TRUE, steps |-> steps \o <<"inline">>]
    ELSE LET after == add_cover_letter_after_quick_apply(p, resume_info, config)
         IN  IF after.raised
             THEN inline_success(p, i + 1, resume_info, config,
                                 steps \o <<"inline">> \o after.steps)
             ELSE [returned |-> TRUE,
                   steps |-> steps \o <<"inline">> \o after.steps]

\* The "resume delivered" confirmation, with the same `try`.
resume_delivered(p, resume_info, config) ==
    IF ~p.resume_delivered THEN [returned |-> FALSE, steps |-> <<>>]
    ELSE IF ~has_title(resume_info)
    THEN [returned |-> TRUE, steps |-> <<"delivered">>]
    ELSE LET after == add_cover_letter_after_quick_apply(p, resume_info, config)
         IN  [returned |-> ~after.raised,
              steps |-> <<"delivered">> \o after.steps]

\* `"negotiations" in current_url or "response" in current_url`
is_response_url(url) ==
    Contains(<<"negotiations">>, url) \/ Contains(<<"response">>, url)

\* apply_to_vacancy
apply_to_vacancy(p, d, preferred_resume_title, resume_info, config) ==
    IF ~p.apply_btn THEN Outcome("False", <<>>, <<>>, <<>>)
    ELSE IF p.click_raises THEN Outcome("Exception", <<>>, <<"click_apply">>, <<>>)
    ELSE
    LET probes == <<"click_apply">> \o handle_location_warning_modal(p.location)
                    \o handle_photo_suggestion_modal(p.photo)
        Then(o) == [o EXCEPT !.steps = probes \o @]
        inline == inline_success(p, 1, resume_info, config, <<>>)
        delivered == resume_delivered(p, resume_info, config)
    IN  IF p.modal = "visible"
        THEN Then(handle_response_modal(p, preferred_resume_title, resume_info, config))
        ELSE IF is_response_url(p.url)
        THEN Then(handle_response_page(p, preferred_resume_title, resume_info, config))
        ELSE IF inline.returned
        THEN Then(Outcome("True", <<>>, inline.steps, <<>>))
        ELSE IF delivered.returned
        THEN Then(Outcome("True", <<>>, inline.steps \o delivered.steps, <<>>))
        ELSE Then(Outcome("False", <<>>, inline.steps \o delivered.steps, <<>>))

\* The browser page of an attempt.  Arguments of the fields, in order of use:
\* the apply control is there; clicking it raises; the location warning
\* ("absent", "present", or "no_button": shown without a continue button); the
\* photo prompt; the response dialog ("absent", "visible", or "vanishes":
\* found, then gone before wait_for ends); the URL after the click; the inline
\* success selectors that match; the "resume delivered" text; employer
\* questions; the texts of the offered resumes; a letter field; the submit
\* control; the success marker after submit; the texts of the error elements
\* after submit; the deferred letter form ("absent", "hidden", "no_textarea",
\* "no_submit", "complete"); typing into a text area raises.
VacancyUrl == <<"https://hh.ru/vacancy/", "1">>
PlainPage ==
    [apply_btn |-> TRUE, click_raises |-> FALSE, location |-> "absent",
     photo |-> FALSE, modal |-> "absent", url |-> VacancyUrl,
     success_sel |-> {}, resume_delivered |-> FALSE, questions |-> FALSE,
     resumes |-> <<>>, letter_field |-> FALSE, submit_btn |-> TRUE,
     after_success |-> FALSE, error_el |-> <<>>, letter_form |-> "absent",
     typing_raises |-> FALSE]

\* No attempt made, or its result consumed.
NoOutcome == Outcome("-", <<>>, <<>>, <<>>)
NoAttempt == [out |-> NoOutcome]

\* No call of generate_cover_letter, and no text under post-processing.
NoGen == [pc |-> "-"]
NoCut == [pc |-> "-"]
NoCli == [pc |-> "-"]

-----------------------------------------------------------------------------
(* StateDB calls, statement by statement.  conn is what the open connection *)
(* reads; disk is what a new connection (another command, or the same       *)
(* command after a crash) reads.                                            *)

\* The file after conn.execute() of an INSERT or DELETE: the connection is
\* opened with sqlite3's default isolation level, so the statement runs in an
\* implicitly opened transaction and the file keeps its committed content.
disk_after_executeAutocommit(file, connection) == connection
disk_after_execute(file, connection) == file

\* The file after conn.commit().
disk_after_commitLost(file, connection) == file
disk_after_commit(file, connection) == connection

Running == call.phase = "running"

\* mark_applied up to its commit: the INSERT OR REPLACE, stamped with utcnow().
mark_applied_begin(vacancy_id, title, employer, url) ==
    /\ ~Running
    /\ conn' = mark_applied_execute(conn, vacancy_id, title, employer, url, now)
    /\ disk' = disk_after_execute(disk, conn')
    /\ call' = [phase |-> "running", op |-> "mark_applied", stmts |-> 1,
                vacancy_id |-> vacancy_id, title |-> title, employer |-> employer,
                url |-> url, at |-> now, reason |-> <<>>]
    /\ UNCHANGED <<marked, mark_applied_calls>>

\* mark_skipped up to its commit.
mark_skipped_begin(vacancy_id, title, employer, url, reason) ==
    /\ ~Running
    /\ conn' = mark_skipped_execute(conn, vacancy_id, title, employer, url, now, reason)
    /\ disk' = disk_after_execute(disk, conn')
    /\ call' = [phase |-> "running", op |-> "mark_skipped", stmts |-> 1,
                vacancy_id |-> vacancy_id, title |-> title, employer |-> employer,
                url |-> url, at |-> now, reason |-> reason]
    /\ UNCHANGED <<marked, mark_applied_calls>>

\* clear_all, first statement: DELETE FROM applied_vacancies.
clear_all_begin ==
    /\ ~Running
    /\ conn' = [conn EXCEPT !.applied_vacancies = {}]
    /\ disk' = disk_after_execute(disk, conn')
    /\ call' = [NoCall EXCEPT !.phase = "running", !.op = "clear_all", !.stmts = 1]
    /\ UNCHANGED <<marked, mark_applied_calls>>

\* clear_all, second statement: DELETE FROM skipped_vacancies.
ClearAllSecond ==
    /\ Running /\ call.op = "clear_all" /\ call.stmts = 1
    /\ conn' = [conn EXCEPT !.skipped_vacancies = {}]
    /\ disk' = disk_after_execute(disk, conn')
    /\ call' = [call EXCEPT !.stmts = 2]
    /\ UNCHANGED <<marked, mark_applied_calls, now, cfg, letterVars, sessionVars>>

\* self._conn.commit(), after which the call returns.  The returned call is
\* remembered by its operation and id only.
Commit ==
    /\ Running
    /\ call.op = "clear_all" => call.stmts = 2
    /\ disk' = disk_after_commit(disk, conn)
    /\ call' = [NoCall EXCEPT !.phase = "returned", !.op = call.op,
                              !.vacancy_id = call.vacancy_id]
    /\ marked' = IF call.op = "clear_all" THEN {} ELSE marked \cup {call.vacancy_id}
    /\ mark_applied_calls' =
          CASE call.op = "clear_all" -> [i \in Ids |-> 0]
            [] call.op = "mark_applied" ->
                  [mark_applied_calls EXCEPT ![call.vacancy_id] =
                      IF @ < 2 THEN @ + 1 ELSE @]
            [] OTHER -> mark_applied_calls
    /\ UNCHANGED <<conn, now, cfg, letterVars, sessionVars>>

\* The process dies (kill, power loss, an exception that ends the command):
\* an open transaction is rolled back, and the next command opens the file.
Crash ==
    /\ pc # "idle" \/ call.phase # "idle"
    /\ conn' = disk
    /\ call' = NoCall
    /\ pc' = "idle"
    /\ page_num' = 0 /\ cards' = <<>> /\ idx' = 0
    /\ card' = NoCard /\ qf' = NoResult /\ details' = NoDetails /\ df' = NoResult
    /\ stats' = NewStats /\ gotos' = 0 /\ attempt' = NoAttempt
    /\ UNCHANGED <<disk, now, marked, mark_applied_calls, cfg, letterVars>>

\* Time passes.
Tick ==
    /\ now < MaxTime
    /\ now' = now + 1
    /\ UNCHANGED <<ledgerVars, cfg, letterVars, sessionVars>>

-----------------------------------------------------------------------------
(* SpecLedger: StateDB under every sequence of calls of its interface *)

LedgerTitles == {<<"a">>}
LedgerEmployer == <<"c">>
LedgerReasons == {<<"archived">>, <<"has_test">>}

DefaultConfig == Config(<<>>, <<>>, TRUE, TRUE, FALSE, <<"t">>, 1, 1)

InitSession ==
    /\ pc = "idle" /\ page_num = 0 /\ cards = <<>> /\ idx = 0
    /\ card = NoCard /\ qf = NoResult /\ details = NoDetails /\ df = NoResult
    /\ stats = NewStats /\ gotos = 0 /\ attempt = NoAttempt

InitLedgerVars ==
    /\ conn = EmptyDB /\ disk = EmptyDB /\ call = NoCall
    /\ marked = {} /\ mark_applied_calls = [i \in Ids |-> 0]

InitLedger ==
    /\ InitLedgerVars /\ InitSession
    /\ now = 0 /\ cfg = DefaultConfig
    /\ gen = NoGen /\ cut = NoCut /\ cli = NoCli

CallMarkApplied ==
    /\ \E id \in Ids, t \in LedgerTitles :
          mark_applied_begin(id, t, LedgerEmployer, UrlOf(id))
    /\ UNCHANGED <<now, cfg, letterVars, sessionVars>>

CallMarkSkipped ==
    /\ \E id \in Ids, t \in LedgerTitles, r \in LedgerReasons :
          mark_skipped_begin(id, t, LedgerEmployer, UrlOf(id), r)
    /\ UNCHANGED <<now, cfg, letterVars, sessionVars>>

CallClearAll ==
    /\ clear_all_begin
    /\ UNCHANGED <<now, cfg, letterVars, sessionVars>>

NextLedger ==
    \/ CallMarkApplied
    \/ CallMarkSkipped
    \/ CallClearAll
    \/ ClearAllSecond
    \/ Commit
    \/ Crash
    \/ Tick

SpecLedger == InitLedger /\ [][NextLedger]_vars

-----------------------------------------------------------------------------
(* Properties of the ledger, checked under SpecLedger *)

AppliedRows(db, id) == {r \in db.applied_vacancies : r.vacancy_id = id}
SkippedRows(db, id) == {r \in db.skipped_vacancies : r.vacancy_id = id}

\* The step in which a call of `op` commits and returns.
Returns(op) == call.phase = "running" /\ call.op = op /\ call'.phase = "returned"

\* C2: whenever no StateDB call is in progress (every mutating call made so
\* far has returned), the committed file answers has_applied and has_seen for
\* every id exactly as the open connection does, so that a crash at that point
\* followed by a reopen (which reads the file) changes no answer.
C2_CommittedOnReturn ==
    ~Running =>
        \A id \in Ids :
            /\ has_applied(disk, id) = has_applied(conn, id)
            /\ has_seen(disk, id) = has_seen(conn, id)

\* C2 witness: the process has crashed and reopened the store after calls had
\* returned; the applied record of one id and the skip record of another
\* are still there.
C2_Witness ==
    /\ call.phase = "idle"
    /\ \E i, j \in Ids :
          /\ has_applied(conn, i)
          /\ ~has_applied(conn, j) /\ has_seen(conn, j)

\* C3: a mark_applied (mark_skipped) call that returns leaves exactly one row
\* for its id in the applied (skipped) table, carrying the fields of this
\* call; when the id already had a row there (the operation was called
\* before), the table's row count is what it was after the earlier call.
C3_IdempotentUpsert ==
    [][ /\ Returns("mark_applied") =>
            LET id == call.vacancy_id
            IN  /\ AppliedRows(disk', id) =
                      {[vacancy_id |-> id, title |-> call.title,
                        employer |-> call.employer, url |-> call.url,
                        applied_at |-> call.at, status |-> "applied"]}
                /\ AppliedRows(conn', id) = AppliedRows(disk', id)
                /\ AppliedRows(disk, id) # {} =>
                      /\ total_applied(disk') = total_applied(disk)
                      /\ total_skipped(disk') = total_skipped(disk)
        /\ Returns("mark_skipped") =>
            LET id == call.vacancy_id
            IN  /\ SkippedRows(disk', id) =
                      {[vacancy_id |-> id, title |-> call.title,
                        employer |-> call.employer, url |-> call.url,
                        skipped_at |-> call.at, reason |-> call.reason]}
                /\ SkippedRows(conn', id) = SkippedRows(disk', id)
                /\ SkippedRows(disk, id) # {} =>
                      /\ total_applied(disk') = total_applied(disk)
                      /\ total_skipped(disk') = total_skipped(disk)
      ]_vars

\* C3 witness: mark_applied has returned a second time for the same id, and
\* mark_skipped is about to return for an id that already has a skip record
\* with another reason and an earlier timestamp.
C3_Witness ==
    /\ Running /\ call.op = "mark_skipped"
    /\ \E r \in SkippedRows(disk, call.vacancy_id) :
          r.reason # call.reason /\ r.skipped_at < call.at
    /\ \E id \in Ids : mark_applied_calls[id] = 2 /\ total_applied(disk) = 1

\* C4: while no call is in progress, has_seen(id) is true exactly for the ids
\* for which mark_applied or mark_skipped has returned since the store was
\* created or last wiped by clear_all; the same holds of the committed file
\* at all times.
C4_SeenIffMarked ==
    /\ ~Running => \A id \in Ids : has_seen(conn, id) <=> id \in marked
    /\ \A id \in Ids : has_seen(disk, id) <=> id \in marked

\* C4 witness: one id was only skipped and is seen, another was never marked
\* and is not seen.
C4_Witness ==
    /\ ~Running
    /\ \E i, j \in Ids :
          /\ i \in marked /\ has_seen(conn, i) /\ ~has_applied(conn, i)
          /\ j \notin marked /\ ~has_seen(conn, j)

C6_MarkAppliedKeepsSkipRecord ==
    [][ (Returns("mark_applied") /\ SkippedRows(disk, call.vacancy_id) # {}) =>
            /\ disk'.skipped_vacancies = disk.skipped_vacancies
            /\ conn'.skipped_vacancies = disk.skipped_vacancies
            /\ total_skipped(conn') = total_skipped(disk)
            /\ has_applied(conn', call.vacancy_id) /\ has_applied(disk', call.vacancy_id)
            /\ has_seen(conn', call.vacancy_id) /\ has_seen(disk', call.vacancy_id)
            /\ \A j \in Ids \ {call.vacancy_id} :
                  has_applied(conn', j) = has_applied(disk, j)
      ]_vars

\* C6 witness: mark_applied has just returned for an id that still has its
\* skip record and had no applied record before.
C6_Witness ==
    /\ call.phase = "returned" /\ call.op = "mark_applied"
    /\ mark_applied_calls[call.vacancy_id] = 1
    /\ SkippedRows(conn, call.vacancy_id) # {}
    /\ has_applied(conn, call.vacancy_id)

IdsOf(table) == {r.vacancy_id : r \in table}

\* C7: when clear_all returns, both tables are empty for the connection and in
\* the file (has_seen false for every id, both totals 0); and the file never
\* loses a record of either table in a step that does not leave both of its
\* tables empty, so neither a crash during clear_all nor another connection
\* finds one set emptied and the other not.
C7_ClearAllAtomic ==
    [][ /\ Returns("clear_all") =>
            /\ conn' = EmptyDB /\ disk' = EmptyDB
            /\ \A id \in Ids : ~has_seen(conn', id)
            /\ total_applied(conn') = 0 /\ total_skipped(conn') = 0
        /\ (\/ ~(IdsOf(disk.applied_vacancies) \subseteq IdsOf(disk'.applied_vacancies))
            \/ ~(IdsOf(disk.skipped_vacancies) \subseteq IdsOf(disk'.skipped_vacancies)))
           => disk' = EmptyDB
      ]_vars

\* C7 witness: clear_all has run its first DELETE on a store that holds applied
\* and skipped records; the file still holds both.
C7_Witness ==
    /\ Running /\ call.op = "clear_all" /\ call.stmts = 1
    /\ conn.applied_vacancies = {} /\ conn.skipped_vacancies # {}
    /\ disk.applied_vacancies # {} /\ disk.skipped_vacancies # {}

-----------------------------------------------------------------------------
(* The session loop: main.run and run_session.  Every step of the process   *)
(* waits for the StateDB call it made to return (the calls are synchronous). *)
(* The clock is not advanced here: the session loop writes timestamps and    *)
(* never reads them.                                                         *)

MaxPages == 2        \* cfg.search.max_pages of the sessions explored

\* What the site shows for a listing id.
TitleOf(id) == IF id % 2 = 1 THEN <<"a">> ELSE <<"B", "a">>
EmployerOf(id) == <<"c">>
SiteCard(id) == VacancyCard(id, TitleOf(id), EmployerOf(id))

\* The lists search_vacancies can return: any cards, in any order, repeats
\* included, none at all past the last page.
RECURSIVE SeqsUpTo(_, _)
SeqsUpTo(S, n) ==
    IF n = 0 THEN {<<>>}
    ELSE LET shorter == SeqsUpTo(S, n - 1)
         IN  shorter \cup {Append(q, x) : q \in shorter, x \in S}
SearchPages == SeqsUpTo({SiteCard(id) : id \in Ids}, MaxCards)

\* What fetch_vacancy_details can return for a card.
PageDetails(c) ==
    {VacancyDetails(c.vacancy_id, c.title, c.employer, ht, FALSE, aa, FALSE, ar) :
        ht \in BOOLEAN, aa \in BOOLEAN, ar \in BOOLEAN}

\* The configurations of the sessions explored: no denylist and a ceiling of
\* one application; the keyword "b" denylisted and a ceiling of two.
RunnerConfigs ==
    {Config(<<>>, <<>>, TRUE, TRUE, FALSE, <<"t">>, MaxPages, 1),
     Config(<< <<"b">> >>, <<>>, TRUE, TRUE, FALSE, <<"t">>, MaxPages, 2)}

\* The ways a call of apply_to_vacancy ends: it returns True or False, or
\* raises ApplyError or another exception.
ApplyOutcomes == {"True", "False", "ApplyError", "Exception"}

\* `continue`: on to the next card of the page.
NextCard ==
    /\ idx' = idx + 1
    /\ pc' = "card_loop"
    /\ card' = NoCard /\ qf' = NoResult /\ details' = NoDetails /\ df' = NoResult

\* main.run: StateDB() is opened and run_session is entered.
StartRun ==
    /\ pc = "idle"
    /\ pc' = "preamble"
    /\ conn' = disk
    /\ call' = NoCall
    /\ stats' = NewStats
    /\ gotos' = 0
    /\ UNCHANGED <<disk, now, marked, mark_applied_calls, cfg, letterVars, page_num, cards, idx,
                   card, qf, details, df, attempt>>

\* run_session before its loop: login, resume fetch, resume bump, area ids.
\* None of these touches the ledger.  An exception that escapes here, or from
\* search_vacancies below, ends the command: that is the step Crash.
Preamble ==
    /\ pc = "preamble"
    /\ pc' = "page_loop"
    /\ page_num' = 0
    /\ UNCHANGED <<ledgerVars, now, cfg, letterVars, cards, idx, card, qf, details, df, stats, gotos, attempt>>

\* `stats.applied >= max_apps`, the test at the head of both loops
ceiling_reachedOffByOne(st, config) ==
    st.applied > config.limits.max_applications_per_session
ceiling_reached(st, config) ==
    st.applied >= config.limits.max_applications_per_session

\* for page_num in range(max_pages): if stats.applied >= max_apps: break
PageLoop ==
    /\ pc = "page_loop"
    /\ pc' = IF \/ page_num >= cfg.search.max_pages
                \/ ceiling_reached(stats, cfg)
             THEN "complete"
             ELSE "search"
    /\ UNCHANGED <<ledgerVars, now, cfg, letterVars, page_num, cards, idx, card, qf, details, df,
                   stats, gotos, attempt>>

\* cards = await search_vacancies(...); if not cards: break
Search ==
    /\ pc = "search"
    /\ \E cs \in SearchPages :
          /\ cards' = cs
          /\ IF cs = <<>>
             THEN pc' = "complete" /\ idx' = 0
             ELSE pc' = "card_loop" /\ idx' = 1
    /\ gotos' = gotos + 1
    /\ UNCHANGED <<ledgerVars, now, cfg, letterVars, page_num, card, qf, details, df, stats,
                   attempt>>

\* for card in cards: if stats.applied >= max_apps: break
\* and, after the loop, the pause and the next page.
CardLoop ==
    /\ pc = "card_loop"
    /\ ~Running
    /\ IF \/ idx > Len(cards)
          \/ ceiling_reached(stats, cfg)
       THEN /\ pc' = "page_loop"
            /\ page_num' = page_num + 1
            /\ cards' = <<>> /\ idx' = 0
            /\ card' = card
       ELSE /\ pc' = "quick"
            /\ card' = cards[idx]
            /\ UNCHANGED <<page_num, cards, idx>>
    /\ UNCHANGED <<ledgerVars, now, cfg, letterVars, qf, details, df, stats, gotos, attempt>>

\* qf = quick_filter(card, db)
QuickFilterStepRecords ==
    /\ pc = "quick"
    /\ qf' = quick_filter(card, conn, cfg)
    /\ pc' = "quick_done"
    /\ IF qf'.skip /\ qf'.reason # <<"already_seen">>
       THEN mark_skipped_begin(card.vacancy_id, card.title, card.employer, card.url,
                               qf'.reason)
       ELSE UNCHANGED ledgerVars
    /\ UNCHANGED <<now, cfg, letterVars, page_num, cards, idx, card, details, df, stats, gotos, attempt>>
QuickFilterStep ==
    /\ pc = "quick"
    /\ qf' = quick_filter(card, conn, cfg)
    /\ pc' = "quick_done"
    /\ UNCHANGED <<ledgerVars, now, cfg, letterVars, page_num, cards, idx, card, details, df,
                   stats, gotos, attempt>>

\* if qf.skip: count it, record it unless it is "already_seen", continue
AfterQuick ==
    /\ pc = "quick_done"
    /\ ~Running
    /\ IF qf.skip
       THEN /\ stats' = CountSkip(stats, qf.reason)
            /\ IF qf.reason # <<"already_seen">>
               THEN mark_skipped_begin(card.vacancy_id, card.title, card.employer,
                                       card.url, qf.reason)
               ELSE UNCHANGED ledgerVars
            /\ NextCard
       ELSE /\ pc' = "fetch"
            /\ UNCHANGED <<ledgerVars, stats, idx, card, qf, details, df>>
    /\ UNCHANGED <<now, cfg, letterVars, page_num, cards, gotos, attempt>>

\* details = await fetch_vacancy_details(...)
FetchReturns ==
    /\ pc = "fetch"
    /\ gotos' = gotos + 1
    /\ \E d \in PageDetails(card) : details' = d
    /\ pc' = "fetched"
    /\ UNCHANGED <<ledgerVars, now, cfg, letterVars, page_num, cards, stats, idx, card, qf, df,
                   attempt>>

\* fetch_vacancy_details raises: except Exception: stats.errors += 1; continue
FetchRaisesRecords ==
    /\ pc = "fetch"
    /\ gotos' = gotos + 1
    /\ stats' = [stats EXCEPT !.errors = @ + 1]
    /\ mark_skipped_begin(card.vacancy_id, card.title, card.employer, card.url,
                          <<"fetch_failed">>)
    /\ NextCard
    /\ UNCHANGED <<now, cfg, letterVars, page_num, cards, attempt>>
FetchRaises ==
    /\ pc = "fetch"
    /\ gotos' = gotos + 1
    /\ stats' = [stats EXCEPT !.errors = @ + 1]
    /\ NextCard
    /\ UNCHANGED <<ledgerVars, now, cfg, letterVars, page_num, cards, attempt>>

\* A StateDB call of the loop raises (sqlite3.Error: the file is locked by
\* another command, the disk is full): has_seen inside quick_filter,
\* mark_skipped after a skip verdict, mark_applied after a success.  None of
\* these calls is inside a `try` of run_session, so the exception leaves the
\* loop and run_session, whose locals (the statistics among them) are gone;
\* main.run then closes the store (the step Crash).
StateDBRaises ==
    /\ ~Running
    /\ \/ pc = "quick"
       \/ pc = "quick_done" /\ qf.skip /\ qf.reason # <<"already_seen">>
       \/ pc = "fetched" /\ details.already_applied
       \/ pc = "deep_done" /\ df.skip
       \/ pc = "applied"
    /\ pc' = "raised"
    /\ page_num' = 0 /\ cards' = <<>> /\ idx' = 0
    /\ card' = NoCard /\ qf' = NoResult /\ details' = NoDetails /\ df' = NoResult
    /\ stats' = NewStats /\ gotos' = 0
    /\ UNCHANGED <<ledgerVars, now, cfg, letterVars, attempt>>

\* if details.already_applied: count, record "already_applied", continue
AlreadyAppliedCheck ==
    /\ pc = "fetched"
    /\ IF details.already_applied
       THEN /\ stats' = CountSkip(stats, <<"already_applied">>)
            /\ mark_skipped_begin(card.vacancy_id, details.title, details.employer,
                                  card.url, <<"already_applied">>)
            /\ NextCard
       ELSE /\ pc' = "deep"
            /\ UNCHANGED <<ledgerVars, stats, idx, card, qf, details, df>>
    /\ UNCHANGED <<now, cfg, letterVars, page_num, cards, gotos, attempt>>

\* df = deep_filter(details)
DeepFilterStep ==
    /\ pc = "deep"
    /\ df' = deep_filter(details, cfg)
    /\ pc' = "deep_done"
    /\ UNCHANGED <<ledgerVars, now, cfg, letterVars, page_num, cards, idx, card, qf, details,
                   stats, gotos, attempt>>

\* if df.skip: count, record the reason, continue
AfterDeepCountsOnly ==
    /\ pc = "deep_done"
    /\ IF df.skip
       THEN /\ stats' = CountSkip(stats, df.reason)
            /\ NextCard
       ELSE /\ pc' = "apply"
            /\ UNCHANGED <<stats, idx, card, qf, details, df>>
    /\ UNCHANGED <<ledgerVars, now, cfg, letterVars, page_num, cards, gotos, attempt>>
AfterDeep ==
    /\ pc = "deep_done"
    /\ IF df.skip
       THEN /\ stats' = CountSkip(stats, df.reason)
            /\ mark_skipped_begin(card.vacancy_id, details.title, details.employer,
                                  card.url, df.reason)
            /\ NextCard
       ELSE /\ pc' = "apply"
            /\ UNCHANGED <<ledgerVars, stats, idx, card, qf, details, df>>
    /\ UNCHANGED <<now, cfg, letterVars, page_num, cards, gotos, attempt>>

\* The resume read before the loop: fetch_resume_content is called only with
\* cover letters enabled, its failure leaves None, an unparsed page an empty
\* title.
ResumeInfos(config) ==
    IF config.cover_letter.enabled
    THEN {NoResumeInfo, ResumeInfo(<<>>), ResumeInfo(<<"a">>)}
    ELSE {NoResumeInfo}

\* success = await apply_to_vacancy(page, details, preferred_resume,
\* resume_info), on one of the given pages: the call returns or raises.
ApplyOn(pages) ==
    /\ pc = "apply"
    /\ \E p \in pages, info \in ResumeInfos(cfg) :
          attempt' = [page |-> p, resume_info |-> info,
                      out |-> apply_to_vacancy(p, details, cfg.resume.preferred_title,
                                               info, cfg)]
    /\ pc' = "apply_returned"
    /\ UNCHANGED <<ledgerVars, now, cfg, letterVars, page_num, cards, idx, card, qf, details, df,
                   stats, gotos>>

\* The pages of the sessions explored: no apply control; an inline success
\* marker; a response dialog without its submit control; a click that raises.
RunnerPages ==
    {[PlainPage EXCEPT !.apply_btn = FALSE],
     [PlainPage EXCEPT !.success_sel = {1}],
     [PlainPage EXCEPT !.modal = "visible", !.submit_btn = FALSE],
     [PlainPage EXCEPT !.click_raises = TRUE]}

Apply == ApplyOn(RunnerPages)

\* The two except clauses, and `if success: ... else: ...` up to mark_applied
AfterApplyRecordsFailure ==
    /\ pc = "apply_returned"
    /\ attempt' = NoAttempt
    /\ CASE attempt.out.result = "True" ->
              /\ pc' = "applied"
              /\ UNCHANGED <<ledgerVars, stats, idx, card, qf, details, df>>
         [] attempt.out.result = "False" ->
              /\ stats' = CountSkip(stats, <<"apply_failed">>)
              /\ mark_skipped_begin(card.vacancy_id, details.title, details.employer,
                                    card.url, <<"apply_failed">>)
              /\ NextCard
         [] OTHER ->
              /\ stats' = [stats EXCEPT !.errors = @ + 1]
              /\ UNCHANGED ledgerVars
              /\ NextCard
    /\ UNCHANGED <<now, cfg, letterVars, page_num, cards, gotos>>
AfterApply ==
    /\ pc = "apply_returned"
    /\ attempt' = NoAttempt
    /\ CASE attempt.out.result = "True" ->
              /\ pc' = "applied"
              /\ UNCHANGED <<stats, idx, card, qf, details, df>>
         [] attempt.out.result = "False" ->
              /\ stats' = CountSkip(stats, <<"apply_failed">>)
              /\ NextCard
         [] OTHER ->
              /\ stats' = [stats EXCEPT !.errors = @ + 1]
              /\ NextCard
    /\ UNCHANGED <<ledgerVars, now, cfg, letterVars, page_num, cards, gotos>>

\* if success: db.mark_applied(card.vacancy_id, details.title, ...)
RecordApplied ==
    /\ pc = "applied"
    /\ mark_applied_begin(card.vacancy_id, details.title, details.employer, card.url)
    /\ pc' = "count_applied"
    /\ UNCHANGED <<now, cfg, letterVars, page_num, cards, idx, card, qf, details, df, stats, gotos, attempt>>

\* stats.applied += 1, the pause, and on to the next card
CountApplied ==
    /\ pc = "count_applied"
    /\ ~Running
    /\ stats' = [stats EXCEPT !.applied = @ + 1]
    /\ NextCard
    /\ UNCHANGED <<ledgerVars, now, cfg, letterVars, page_num, cards, gotos, attempt>>

\* return stats; main.run prints them and closes the store
Complete ==
    /\ pc = "complete"
    /\ pc' = "idle"
    /\ page_num' = 0 /\ cards' = <<>> /\ idx' = 0
    /\ stats' = NewStats /\ gotos' = 0
    /\ UNCHANGED <<ledgerVars, now, cfg, letterVars, card, qf, details, df, attempt>>

\* main.clear_db: StateDB() is opened and clear_all is called
ClearDb ==
    /\ pc = "idle"
    /\ clear_all_begin
    /\ pc' = "clear"
    /\ UNCHANGED <<now, cfg, letterVars, page_num, cards, idx, card, qf, details, df, stats, gotos, attempt>>

\* main.clear_db: clear_all has returned; the store is closed
ClearDbDone ==
    /\ pc = "clear"
    /\ ~Running
    /\ pc' = "idle"
    /\ UNCHANGED <<ledgerVars, now, cfg, letterVars, page_num, cards, idx, card, qf, details, df,
                   stats, gotos, attempt>>

Init ==
    /\ InitLedgerVars /\ InitSession
    /\ now = 0
    /\ cfg \in RunnerConfigs
    /\ gen = NoGen /\ cut = NoCut /\ cli = NoCli

Next ==
    \/ StartRun
    \/ Preamble
    \/ PageLoop
    \/ Search
    \/ CardLoop
    \/ QuickFilterStep
    \/ AfterQuick
    \/ FetchReturns
    \/ FetchRaises
    \/ StateDBRaises
    \/ AlreadyAppliedCheck
    \/ DeepFilterStep
    \/ AfterDeep
    \/ Apply
    \/ AfterApply
    \/ RecordApplied
    \/ CountApplied
    \/ Complete
    \/ ClearDb
    \/ ClearDbDone
    \/ ClearAllSecond
    \/ Commit
    \/ Crash

Spec == Init /\ [][Next]_vars

-----------------------------------------------------------------------------
(* SpecApply: one attempt of apply_to_vacancy on every enumerated page, and  *)
(* what run_session does with its result                                     *)

MaxResumes == 2      \* a page offers at most MaxResumes resumes

ResumeTexts == {<<"B", "a">>, <<"c">>}
PreferredTitles == {<<>>, <<"b">>, <<"a", "c">>}
PageUrls ==
    {VacancyUrl,
     <<"https://hh.ru/applicant/", "negotiations">>,
     <<"https://hh.ru/applicant/vacancy_", "response", "?vacancyId=1">>}

\* Pages that differ in the outcome surfaces they show after the click.
SurfacePages ==
    {[PlainPage EXCEPT !.modal = m, !.url = u, !.success_sel = s,
                       !.resume_delivered = rd, !.letter_form = lf,
                       !.typing_raises = tr] :
        m \in {"absent", "visible", "vanishes"}, u \in PageUrls,
        s \in {{}, {1}, {2, 3}}, rd \in BOOLEAN,
        lf \in {"absent", "hidden", "no_textarea", "no_submit", "complete"},
        tr \in BOOLEAN}

\* Pages that show the response dialog or the response page, and differ in
\* what that form holds and in what follows the submit click.
FormPages ==
    {[PlainPage EXCEPT !.modal = f[1], !.url = f[2], !.questions = q,
                       !.resumes = rs, !.letter_field = lt, !.submit_btn = sb,
                       !.after_success = ok, !.error_el = er,
                       !.typing_raises = tr] :
        f \in {<<"visible", VacancyUrl>>,
               <<"absent", <<"https://hh.ru/applicant/", "negotiations">> >>},
        q \in BOOLEAN, rs \in SeqsUpTo(ResumeTexts, MaxResumes),
        lt \in BOOLEAN, sb \in BOOLEAN, ok \in BOOLEAN,
        er \in {<<>>, << <<"e">> >>}, tr \in BOOLEAN}

\* Pages that differ in the apply control and in the prompts probed after it.
ProbePages ==
    {[PlainPage EXCEPT !.apply_btn = ab, !.click_raises = cr, !.location = lo,
                       !.photo = ph, !.success_sel = {1}] :
        ab \in BOOLEAN, cr \in BOOLEAN,
        lo \in {"absent", "present", "no_button"}, ph \in BOOLEAN}

ApplyPages == SurfacePages \cup FormPages \cup ProbePages

ApplyConfigs ==
    {[Config(<<>>, <<>>, swt, TRUE, en, <<"t">>, 1, 1)
         EXCEPT !.resume.preferred_title = pt] :
        swt \in BOOLEAN, en \in BOOLEAN, pt \in PreferredTitles}

\* run_session is about to apply to listing 1, which passed both filters.
InitApply ==
    /\ InitLedgerVars
    /\ now = 0
    /\ cfg \in ApplyConfigs
    /\ pc = "apply"
    /\ page_num = 0 /\ cards = <<SiteCard(1)>> /\ idx = 1 /\ card = SiteCard(1)
    /\ qf = FilterResult(FALSE, <<>>)
    /\ details = VacancyDetails(1, TitleOf(1), EmployerOf(1), FALSE, FALSE, FALSE,
                                FALSE, FALSE)
    /\ df = FilterResult(FALSE, <<>>)
    /\ stats = NewStats /\ gotos = 2 /\ attempt = NoAttempt
    /\ gen = NoGen /\ cut = NoCut /\ cli = NoCli

ApplyAnyPage == ApplyOn(ApplyPages)

NextApply ==
    \/ ApplyAnyPage
    \/ AfterApply
    \/ RecordApplied
    \/ Commit
    \/ CountApplied

SpecApply == InitApply /\ [][NextApply]_vars

-----------------------------------------------------------------------------
(* SpecFilter: quick_filter and deep_filter applied to enumerated inputs *)

MaxList == 2         \* a denylist holds at most MaxList entries

FilterTitles == {<<"a">>, <<"A", "b">>, <<"b", "a">>, <<"c">>}
FilterEmployers == {<<"c">>, <<"C", "a">>, <<"b">>}
FilterKeywords == {<<>>, <<"a">>, <<"B">>, <<"A", "b">>}
FilterEmployerEntries == {<<"c">>, <<"A">>}
FilterTemplates == {<<>>, <<" ">>, <<"t">>, <<" ", "t", "\n">>}

\* Ledger contents for the quick filter: empty, the card's id applied, the
\* card's id skipped, another id skipped.
FilterLedgers ==
    {EmptyDB,
     mark_applied_execute(EmptyDB, 1, <<"a">>, <<"c">>, UrlOf(1), 0),
     mark_skipped_execute(EmptyDB, 1, <<"a">>, <<"c">>, UrlOf(1), 0, <<"archived">>),
     mark_skipped_execute(EmptyDB, 2, <<"a">>, <<"c">>, UrlOf(2), 0, <<"archived">>)}

InitQuickInput ==
    /\ pc = "quick"
    /\ card \in {VacancyCard(1, t, e) : t \in FilterTitles, e \in FilterEmployers}
    /\ conn \in FilterLedgers
    /\ disk = conn
    /\ cfg \in {Config(bk, be, TRUE, TRUE, FALSE, <<"t">>, 1, 1) :
                  bk \in SeqsUpTo(FilterKeywords, MaxList),
                  be \in SeqsUpTo(FilterEmployerEntries, MaxList)}
    /\ details = NoDetails

InitDeepInput ==
    /\ pc = "deep"
    /\ card = SiteCard(1)
    /\ conn = EmptyDB /\ disk = EmptyDB
    /\ cfg \in {[Config(<<>>, <<>>, swt, sdv, en, tmpl, 1, 1)
                     EXCEPT !.cover_letter.ai.enabled = ai] :
                  swt \in BOOLEAN, sdv \in BOOLEAN, en \in BOOLEAN,
                  tmpl \in FilterTemplates, ai \in BOOLEAN}
    /\ details \in {VacancyDetails(1, <<"a">>, <<"c">>, ht, lr, aa, ex, ar) :
                      ht \in BOOLEAN, lr \in BOOLEAN, aa \in BOOLEAN,
                      ex \in BOOLEAN, ar \in BOOLEAN}

InitFilter ==
    /\ InitQuickInput \/ InitDeepInput
    /\ call = NoCall /\ marked = {} /\ mark_applied_calls = [i \in Ids |-> 0]
    /\ now = 0
    /\ page_num = 0 /\ cards = <<>> /\ idx = 0
    /\ qf = NoResult /\ df = NoResult
    /\ stats = NewStats /\ gotos = 0 /\ attempt = NoAttempt
    /\ gen = NoGen /\ cut = NoCut /\ cli = NoCli

NextFilter ==
    \/ QuickFilterStep
    \/ DeepFilterStep

SpecFilter == InitFilter /\ [][NextFilter]_vars

-----------------------------------------------------------------------------
(* Properties of the filters and of the session loop *)

\* C1: whenever run_session is about to call apply_to_vacancy for a card, the
\* ledger (the connection's view and the file) holds no applied record for
\* the card's id; and for no id has mark_applied returned more than once
\* since the store was created or last wiped by clear_all.
C1_ApplyOnlyWhenNotApplied ==
    /\ pc = "apply" =>
          /\ AppliedRows(conn, card.vacancy_id) = {}
          /\ AppliedRows(disk, card.vacancy_id) = {}
    /\ \A id \in Ids : mark_applied_calls[id] <= 1

\* C1 witness: apply_to_vacancy is about to be called for one id while the
\* ledger holds the applied record that an earlier session wrote for another.
C1_Witness ==
    /\ pc = "apply"
    /\ stats.applied = 0
    /\ \E id \in Ids \ {card.vacancy_id} :
          AppliedRows(disk, id) # {} /\ mark_applied_calls[id] = 1

\* Two characters that differ at most in case.
SameLetter(x, y) ==
    \/ x = y
    \/ {x, y} \in {{"a", "A"}, {"b", "B"}, {"c", "C"}}

\* needle occurs in hay, case ignored.
OccursIgnoringCase(needle, hay) ==
    \E k \in 0..(Len(hay) - Len(needle)) :
        \A i \in 1..Len(needle) : SameLetter(hay[k + i], needle[i])

Least(S) == CHOOSE i \in S : \A j \in S : i <= j

\* The verdict the priority order of C8 prescribes for card, conn and cfg; the
\* employer entries are matched as exact substrings when exactEmployer holds,
\* and with case ignored otherwise.
QuickVerdict(exactEmployer) ==
    LET bk == cfg.filters.blocked_keywords
        be == cfg.filters.blocked_employers
        seen == card.vacancy_id \in
                    IdsOf(conn.applied_vacancies) \cup IdsOf(conn.skipped_vacancies)
        kwHits == {i \in 1..Len(bk) : OccursIgnoringCase(bk[i], card.title)}
        empHits == {i \in 1..Len(be) :
                      IF exactEmployer
                      THEN Contains(be[i], card.employer)
                      ELSE OccursIgnoringCase(be[i], card.employer)}
    IN  IF seen THEN [skip |-> TRUE, reason |-> <<"already_seen">>]
        ELSE IF kwHits # {}
        THEN [skip |-> TRUE, reason |-> <<"blocked_keyword:">> \o bk[Least(kwHits)]]
        ELSE IF empHits # {}
        THEN [skip |-> TRUE, reason |-> <<"blocked_employer:">> \o be[Least(empHits)]]
        ELSE [skip |-> FALSE, reason |-> <<>>]

\* C8 as stated: already_seen first, then the first keyword that is a
\* case-insensitive substring of the title, then the first employer entry
\* that is a substring of the employer, else no skip.
C8_QuickOrderExactEmployer ==
    pc = "quick_done" => qf = QuickVerdict(TRUE)

\* C8 as amended: the same order, the employer entries being matched as
\* case-insensitive substrings too.
C8_QuickOrder ==
    pc = "quick_done" => qf = QuickVerdict(FALSE)

\* C8 witness: an unseen card, in a ledger that holds another id, passed two
\* keywords that do not occur in its title and was skipped for the second
\* employer entry, which occurs in its employer only when case is ignored.
C8_Witness ==
    /\ pc = "quick_done"
    /\ conn.skipped_vacancies # {}
    /\ Len(cfg.filters.blocked_keywords) = 2
    /\ Len(cfg.filters.blocked_employers) = 2
    /\ qf = [skip |-> TRUE, reason |-> <<"blocked_employer:", "A">>]
    /\ cfg.filters.blocked_employers[2] = <<"A">>
    /\ ~Contains(<<"A">>, card.employer)

DeepChecks ==
    << [reason |-> <<"already_applied">>, applies |-> details.already_applied],
       [reason |-> <<"archived">>, applies |-> details.archived],
       [reason |-> <<"external_link">>,
        applies |-> details.is_external /\ cfg.filters.skip_direct_vacancies],
       [reason |-> <<"has_test">>,
        applies |-> details.has_test /\ cfg.filters.skip_with_tests],
       [reason |-> <<"letter_required_no_template">>,
        applies |-> /\ details.response_letter_required
                    /\ \/ ~cfg.cover_letter.enabled
                       \/ \A i \in 1..Len(cfg.cover_letter.template) :
                             IsSpace(cfg.cover_letter.template[i])] >>

\* C10: the verdict of deep_filter is the reason of the first check, in the
\* order already_applied, archived, external_link, has_test,
\* letter_required_no_template, that applies, and skip=false when none does.
C10_DeepOrder ==
    pc = "deep_done" =>
        LET hits == {i \in 1..Len(DeepChecks) : DeepChecks[i].applies}
        IN  df = IF hits = {}
                 THEN [skip |-> FALSE, reason |-> <<>>]
                 ELSE [skip |-> TRUE, reason |-> DeepChecks[Least(hits)].reason]

\* C10 witness: an external listing with a test that requires a letter, while
\* external applies are allowed and cover letters are off: has_test wins.
C10_Witness ==
    /\ pc = "deep_done"
    /\ details.is_external /\ ~cfg.filters.skip_direct_vacancies
    /\ details.has_test /\ details.response_letter_required
    /\ ~cfg.cover_letter.enabled
    /\ df = [skip |-> TRUE, reason |-> <<"has_test">>]


\* No check of deep_filter before the fifth applies to the fetched details.
NoEarlierDeepCheck ==
    /\ ~details.already_applied
    /\ ~details.archived
    /\ ~(details.is_external /\ cfg.filters.skip_direct_vacancies)
    /\ ~(details.has_test /\ cfg.filters.skip_with_tests)

\* C11: when no earlier deep check applies and the listing requires a cover
\* letter, deep_filter skips with "letter_required_no_template" if and only if
\* cover letters are disabled, or there is neither a usable template nor a
\* usable generation path (enabled AI generation).
C11_LetterSkipIffNoLetterPath ==
    (pc = "deep_done" /\ NoEarlierDeepCheck /\ details.response_letter_required)
    => ((df.skip /\ df.reason = <<"letter_required_no_template">>)
        <=> \/ ~cfg.cover_letter.enabled
            \/ /\ strip(cfg.cover_letter.template) = <<>>
               /\ ~use_ai_cover_letter(cfg))

ListingFails ==
    \/ FetchRaises
    \/ /\ pc = "apply_returned"
       /\ attempt.out.result \in {"ApplyError", "Exception"}
       /\ AfterApply
    \/ StateDBRaises

\* C13: a failure raised at any step of one listing's filter / detail-fetch /
\* apply sequence is caught, adds one to stats.errors, and the session goes on
\* to the next listing.
C13_ListingFailureCaught ==
    [][ListingFails =>
          /\ stats'.errors = stats.errors + 1
          /\ pc' = "card_loop"
          /\ idx' = idx + 1]_vars

\* C14: when the detail fetch of a listing fails, the session counts one
\* error and writes no ledger record: from the moment the card was taken to
\* the `continue` the ledger is unchanged, nothing is pending, and the quick
\* filter of a later session does not find the id seen.
C14_FetchFailureLeavesNoRecord ==
    [][/\ ( \/ pc = "card_loop" /\ pc' = "quick"
            \/ pc = "quick" /\ pc' = "quick_done"
            \/ pc = "quick_done" /\ pc' = "fetch"
            \/ pc = "fetch" /\ pc' = "card_loop" )
          => UNCHANGED ledgerVars
       /\ (pc = "fetch" /\ pc' = "card_loop")
          => /\ stats'.errors = stats.errors + 1
             /\ stats'.skipped = stats.skipped /\ stats'.applied = stats.applied
             /\ ~Running' /\ conn' = disk'
             /\ ~has_seen(disk', card.vacancy_id)
             /\ quick_filter(card, disk', cfg).reason # <<"already_seen">>]_vars

\* One listing was processed, it ended in an error, and the ledger is empty.
C14_Witness ==
    /\ pc = "card_loop" /\ idx = 2
    /\ stats.errors = 1 /\ stats.skipped = 0 /\ stats.applied = 0
    /\ gotos = 2
    /\ disk = EmptyDB /\ conn = EmptyDB

\* The connection reads a skip record of this id with this reason.
SkipRecorded(db, id, reason) ==
    \E r \in db.skipped_vacancies : r.vacancy_id = id /\ r.reason = reason

\* C15 as stated: after any listing that the quick or the deep filter skipped
\* with reason r, the ledger holds a skip record of that id with reason r.
C15_EverySkipRecorded ==
    [][/\ (pc = "quick_done" /\ qf.skip /\ pc' = "card_loop")
             => SkipRecorded(conn', card.vacancy_id, qf.reason)
       /\ (pc = "deep_done" /\ df.skip /\ pc' = "card_loop")
             => SkipRecorded(conn', card.vacancy_id, df.reason)]_vars

\* C15, amended: every skip verdict other than the quick filter's
\* "already_seen" is written as a skip record of that id with that reason (so
\* is the "already_applied" found on the fetched page); the write is committed
\* before the next card is taken; "already_seen" writes nothing.
C15_SkipRecordedUnlessSeen ==
    [][/\ (pc = "quick_done" /\ qf.skip /\ pc' = "card_loop")
             => IF qf.reason # <<"already_seen">>
                THEN /\ SkipRecorded(conn', card.vacancy_id, qf.reason)
                     /\ Running' /\ call'.op = "mark_skipped"
                ELSE UNCHANGED ledgerVars
       /\ (pc = "fetched" /\ details.already_applied /\ pc' = "card_loop")
             => /\ SkipRecorded(conn', card.vacancy_id, <<"already_applied">>)
                /\ Running' /\ call'.op = "mark_skipped"
       /\ (pc = "deep_done" /\ df.skip /\ pc' = "card_loop")
             => /\ SkipRecorded(conn', card.vacancy_id, df.reason)
                /\ Running' /\ call'.op = "mark_skipped"
       /\ (Running /\ call.op = "mark_skipped" /\ pc = "card_loop")
             => \/ pc' = "idle"
                \/ /\ pc' = "card_loop"
                   /\ SkipRecorded(disk', call.vacancy_id, call.reason)]_vars

\* A quick skip and a deep skip are both on file after their listings.
C15_Witness ==
    /\ pc = "card_loop" /\ call.phase = "returned" /\ call.op = "mark_skipped"
    /\ SkipRecorded(disk, 2, <<"blocked_keyword:", "b">>)
    /\ SkipRecorded(disk, 1, <<"has_test">>)

\* C16: when the apply control is absent, apply_to_vacancy returns False
\* without a click or a probe, and run_session counts the listing as skipped
\* ("apply_failed"), not as an error, and writes no ledger record: the id is
\* still unseen when the next card is taken.
C16_NoApplyControl ==
    [][(pc = "apply_returned" /\ ~attempt.page.apply_btn /\ pc' # "idle")
          => /\ attempt.out.result = "False"
             /\ attempt.out.steps = <<>> /\ attempt.out.resume_clicks = <<>>
             /\ UNCHANGED ledgerVars
             /\ ~Running' /\ ~has_seen(disk', card.vacancy_id)
             /\ stats'.errors = stats.errors
             /\ stats'.applied = stats.applied
             /\ stats' = CountSkip(stats, <<"apply_failed">>)
             /\ pc' = "card_loop"]_vars

\* A listing without apply control was processed: counted as apply_failed,
\* no error, nothing on file.
C16_Witness ==
    /\ pc = "card_loop" /\ idx = 2
    /\ Get(stats.skip_reasons, <<"apply_failed">>, 0) = 1
    /\ stats.skipped = 1 /\ stats.errors = 0
    /\ disk = EmptyDB /\ conn = EmptyDB

\* The handlers of outcome surfaces among the steps of an attempt, in order.
IsHandler(step) == step \in {"modal", "page", "inline", "delivered"}
HandlersRun(steps) == SelectSeq(steps, IsHandler)

\* The handler of the highest-priority surface a page shows once the click
\* has settled: response dialog (still visible when waited for), redirect to
\* a response/negotiation URL, inline success marker, "resume delivered".
PrioritySurface(p) ==
    IF p.modal = "visible" THEN <<"modal">>
    ELSE IF \E i \in 1..Len(p.url) : p.url[i] \in {"negotiations", "response"}
    THEN <<"page">>
    ELSE IF p.success_sel # {} THEN <<"inline">>
    ELSE IF p.resume_delivered THEN <<"delivered">>
    ELSE <<>>

\* C17: after the apply control is clicked, exactly the handler of the
\* highest-priority surface present runs, once; with no surface present no
\* handler runs and the attempt returns False.
C17_OneSurfaceByPriority ==
    (pc = "apply_returned" /\ attempt.page.apply_btn /\ ~attempt.page.click_raises)
    => /\ HandlersRun(attempt.out.steps) = PrioritySurface(attempt.page)
       /\ PrioritySurface(attempt.page) = <<>> => attempt.out.result = "False"

\* C18: whenever an attempt reaches resume selection (response dialog or
\* response page), it clicks the first offered resume whose text contains the
\* preferred title ignoring case; the first offered resume when none matches
\* or no preferred title is configured; nothing when no resume is offered.
\* It never clicks more than one, and an attempt that does not reach the
\* selection clicks none.
C18_ResumeSelection ==
    pc = "apply_returned" =>
        LET offered == attempt.page.resumes
            wanted == cfg.resume.preferred_title
            matching == {i \in 1..Len(offered) :
                            OccursIgnoringCase(wanted, offered[i])}
            clicked == attempt.out.resume_clicks
        IN  IF \E k \in 1..Len(attempt.out.steps) :
                   attempt.out.steps[k] = "select_resume"
            THEN /\ offered = <<>> => clicked = <<>>
                 /\ (offered # <<>> /\ wanted # <<>> /\ matching # {})
                       => clicked = <<Least(matching)>>
                 /\ (offered # <<>> /\ (wanted = <<>> \/ matching = {}))
                       => clicked = <<1>>
            ELSE clicked = <<>>

\* The second of two offered resumes matches the preferred title, in another
\* letter case, and is the one clicked.
C18_Witness ==
    /\ pc = "apply_returned"
    /\ attempt.page.resumes = << <<"c">>, <<"B", "a">> >>
    /\ cfg.resume.preferred_title = <<"b">>
    /\ attempt.out.resume_clicks = <<2>>

\* C19: on the quick-apply path (no dialog, no redirect, and the inline
\* success marker or the "resume delivered" confirmation detected) the
\* attempt returns True whatever happens in the deferred cover-letter step.
C19_QuickApplyStaysSuccess ==
    (/\ pc = "apply_returned"
     /\ attempt.page.apply_btn /\ ~attempt.page.click_raises
     /\ PrioritySurface(attempt.page) \in {<<"inline">>, <<"delivered">>})
    => attempt.out.result = "True"

\* C20: in every attempt that clicks submit (response dialog or response
\* page), a success marker after the submission gives True; failing that, an
\* error marker gives ApplyError carrying the marker's text; neither marker
\* gives True.
C20_ResultAfterSubmit ==
    (/\ pc = "apply_returned"
     /\ \E k \in 1..Len(attempt.out.steps) : attempt.out.steps[k] = "submit")
    => LET p == attempt.page
       IN  /\ p.after_success => attempt.out.result = "True"
           /\ (~p.after_success /\ p.error_el # <<>>)
                 => /\ attempt.out.result = "ApplyError"
                    /\ Contains(p.error_el[1], attempt.out.error)
           /\ (~p.after_success /\ p.error_el = <<>>)
                 => attempt.out.result = "True"


\* The attempt got as far as looking for the submit control, on the response
\* dialog or on the response page, and the control is not there.
SubmitControlMissing ==
    LET p == attempt.page
        on_dialog == p.modal = "visible"
                       /\ ~(p.questions /\ cfg.filters.skip_with_tests)
        on_page == p.modal # "visible" /\ is_response_url(p.url)
                     /\ ~add_cover_letter_after_quick_apply(p, attempt.resume_info, cfg).raised
    IN  /\ p.apply_btn /\ ~p.click_raises
        /\ on_dialog \/ on_page
        /\ ~fill_cover_letter(p, attempt.resume_info, cfg).raised
        /\ ~p.submit_btn

\* C21: when the submit control cannot be located on the dialog or on the
\* full-page path, the attempt ends with ApplyError and without a submit
\* click; run_session counts one error, counts nothing else, and writes no
\* ledger record: the id is still unseen when the next card is taken.
C21_MissingSubmitIsFatal ==
    [][(pc = "apply_returned" /\ SubmitControlMissing)
          => /\ attempt.out.result = "ApplyError"
             /\ attempt.out.error \in {<<"Submit button not found in modal">>,
                                       <<"Submit button not found on response page">>}
             /\ \A i \in DOMAIN attempt.out.steps : attempt.out.steps[i] # "submit"
             /\ stats' = [stats EXCEPT !.errors = @ + 1]
             /\ UNCHANGED ledgerVars
             /\ ~Running' /\ ~has_seen(disk', card.vacancy_id)
             /\ pc' = "card_loop"]_vars

\* An attempt on the response page typed its letter and then found no submit
\* control.
C21_Witness ==
    /\ pc = "apply_returned" /\ SubmitControlMissing
    /\ attempt.page.modal = "absent"
    /\ attempt.out.steps[Len(attempt.out.steps)] = "type_letter"


-----------------------------------------------------------------------------
(* The cover letter pipeline: generate_cover_letter, the AI generators of   *)
(* hh_bot/ai_generator and the post-processing of their letters.  Cyrillic  *)
(* literals of the code are written in Latin letters, one word an element:  *)
(* "Dobryi" "den" for the greeting, "S uvazheniem" for the closing phrase;  *)
(* such a word counts as one character in the length of a text.             *)
(* A code fence (three backquotes) is the element "code fence".             *)

\* str.startswith
startswith(s, prefix) ==
    Len(prefix) <= Len(s) /\ SubSeq(s, 1, Len(prefix)) = prefix

\* str.find and str.rfind: the 0-based index of the first and of the last
\* occurrence of sep, -1 when there is none
find(s, sep) ==
    LET occurrences == {k \in 0..(Len(s) - Len(sep)) : SubSeq(s, k + 1, k + Len(sep)) = sep}
    IN  IF occurrences = {} THEN -1
        ELSE CHOOSE k \in occurrences : \A j \in occurrences : k <= j
rfind(s, sep) ==
    LET occurrences == {k \in 0..(Len(s) - Len(sep)) : SubSeq(s, k + 1, k + Len(sep)) = sep}
    IN  IF occurrences = {} THEN -1
        ELSE CHOOSE k \in occurrences : \A j \in occurrences : j <= k

\* str.split(sep) and sep.join(parts)
RECURSIVE split(_, _)
split(s, sep) ==
    IF find(s, sep) = -1 THEN <<s>>
    ELSE <<SubSeq(s, 1, find(s, sep))>>
           \o split(SubSeq(s, find(s, sep) + Len(sep) + 1, Len(s)), sep)
RECURSIVE join(_, _)
join(parts, sep) ==
    IF parts = <<>> THEN <<>>
    ELSE IF Len(parts) = 1 THEN parts[1]
    ELSE parts[1] \o sep \o join(Tail(parts), sep)

\* str.lower() on the words the letter generators look for
lower_word(s) ==
    [i \in 1..Len(s) |->
        CASE s[i] = "Dobryi" -> "dobryi"
          [] s[i] = "Telegram:" -> "telegram:"
          [] s[i] = "S uvazheniem" -> "s uvazheniem"
          [] s[i] = "Subject:" -> "subject:"
          [] OTHER -> LowerChar(s[i])]

\* text[:n]
prefix_of(s, n) == SubSeq(s, 1, IF n < Len(s) THEN n ELSE Len(s))

\* _clean_cover_letter (the same in generator.py and groq_generator.py): code
\* fences and "Subject:"/"Re:" lines are dropped, and the default greeting is
\* put in front of a text that starts with none of the known greetings.
clean_cover_letter(text) ==
    LET unfenced == SelectSeq(text, LAMBDA c : c # "code fence")
        kept(line) == LET low == lower_word(strip(line))
                      IN  ~startswith(low, <<"subject:">>) /\ ~startswith(low, <<"re:">>)
        cleaned == strip(join(SelectSeq(split(unfenced, <<"\n">>), kept), <<"\n">>))
        greeted == \E g \in {"dobryi", "zdravstvuite", "uvazhaemyi"} :
                      startswith(lower_word(cleaned), <<g>>)
    IN  IF greeted THEN cleaned
        ELSE <<"Dobryi", " ", "den", "!", "\n", "\n">> \o cleaned

\* str.endswith((".", "!", "?"))
ends_sentence(s) == s # <<>> /\ s[Len(s)] \in {".", "!", "?"}

\* _truncate_letter: at most max_paragraphs paragraphs; a text still longer
\* than max_chars is cut to max_chars and then back to the last occurrence of
\* the first separator, in the order of the list, that occurs beyond 70% of
\* max_chars; a period is appended to a result without terminal punctuation.
truncate_letter(text, max_chars, max_paragraphs) ==
    LET paragraphs == SelectSeq([i \in DOMAIN split(text, <<"\n", "\n">>) |->
                                    strip(split(text, <<"\n", "\n">>)[i])],
                                LAMBDA para : para # <<>>)
        result == join(prefix_of(paragraphs, max_paragraphs), <<"\n", "\n">>)
        truncated == prefix_of(result, max_chars)
        seps == << <<".", " ">>, <<"!", " ">>, <<"?", " ">>,
                   <<".", "\n">>, <<"!", "\n">>, <<"?", "\n">> >>
        found == {k \in DOMAIN seps : 10 * rfind(truncated, seps[k]) > 7 * max_chars}
        first == CHOOSE k \in found : \A j \in found : k <= j
        cut_text == IF Len(result) <= max_chars THEN result
                    ELSE IF found = {} THEN strip(truncated)
                    ELSE strip(prefix_of(truncated, rfind(truncated, seps[first]) + 1))
    IN  IF ends_sentence(cut_text) THEN cut_text ELSE cut_text \o <<".">>


\* _ensure_contacts (groq_generator.py), and _ensure_letter_contacts
\* (generator.py) which reads the handle and the name from the configuration:
\* lines that look like contacts are dropped, then the handle and the name are
\* appended.
ensure_contacts(text, telegram, author_name) ==
    LET kept(line) ==
            LET low == lower_word(strip(line))
            IN  /\ ~startswith(low, <<"telegram:">>)
                /\ ~startswith(low, <<"s uvazheniem">>)
                /\ ~startswith(low, <<"tel:">>)
                /\ ~(startswith(strip(line), <<"@">>) /\ Len(strip(line)) < 30)
        body == strip(join(SelectSeq(split(text, <<"\n">>), kept), <<"\n">>))
        with_handle == IF telegram # <<>>
                       THEN body \o <<"\n", "\n", "Telegram:", " ", "@">> \o telegram
                       ELSE body
    IN  IF author_name # <<>>
        THEN with_handle \o <<"\n", "\n", "S uvazheniem", ",", "\n">> \o author_name
        ELSE with_handle
ensure_letter_contacts(text, config) ==
    ensure_contacts(text, config.auth.telegram,
                    IF config.auth.name # <<>> THEN config.auth.name
                    ELSE IF config.auth.email # <<>>
                    THEN split(config.auth.email, <<"@">>)[1]
                    ELSE <<>>)

\* _smart_truncate: the body paragraphs that fit, in order from paragraph i,
\* into what is left of `available`; of the first one that does not fit, the
\* part up to its last sentence end, if that lies beyond half of the rest.
RECURSIVE body_parts(_, _, _, _)
body_parts(body_paragraphs, i, current_len, available) ==
    IF i > Len(body_paragraphs) THEN <<>>
    ELSE IF current_len + Len(body_paragraphs[i]) + 2 <= available
    THEN <<body_paragraphs[i]>>
           \o body_parts(body_paragraphs, i + 1,
                         current_len + Len(body_paragraphs[i]) + 2, available)
    ELSE LET remaining == available - current_len
             partial == prefix_of(body_paragraphs[i], remaining)
             seps == << <<".", " ">>, <<"!", " ">>, <<"?", " ">> >>
             found == {k \in DOMAIN seps : 2 * rfind(partial, seps[k]) > remaining}
             first == CHOOSE k \in found : \A j \in found : k <= j
         IN  IF remaining > 50 /\ found # {}
             THEN <<prefix_of(partial, rfind(partial, seps[first]) + 1)>>
             ELSE <<>>

\* _smart_truncate: a text longer than max_chars keeps its contact paragraphs
\* (those with a contact marker, and the last two) whole, and as much of the
\* other paragraphs as the rest of the budget holds.
smart_truncate(text, max_chars) ==
    LET paragraphs == SelectSeq([i \in DOMAIN split(text, <<"\n", "\n">>) |->
                                    strip(split(text, <<"\n", "\n">>)[i])],
                                LAMBDA para : para # <<>>)
        marked_para(para) == \E k \in DOMAIN para :
            lower_word(para)[k] \in {"telegram:", "s uvazheniem", "@", "tel:", "phone:"}
        is_contact(i) == marked_para(paragraphs[i]) \/ i > Len(paragraphs) - 2
        pick(keep) ==
            LET RECURSIVE from(_)
                from(i) == IF i > Len(paragraphs) THEN <<>>
                           ELSE IF is_contact(i) = keep THEN <<paragraphs[i]>> \o from(i + 1)
                           ELSE from(i + 1)
            IN  from(1)
        contact_paragraphs == pick(TRUE)
        body_paragraphs == pick(FALSE)
        contacts_text == join(contact_paragraphs, <<"\n", "\n">>)
        available_for_body == max_chars - Len(contacts_text) - 10
        body_text == IF Len(body_paragraphs[1]) > 100
                     THEN prefix_of(body_paragraphs[1], 100) \o <<".", ".", ".">>
                     ELSE body_paragraphs[1]
        parts == body_parts(body_paragraphs, 1, 0, available_for_body)
        result == IF available_for_body < 100
                  THEN IF body_paragraphs # <<>>
                       THEN body_text \o <<"\n", "\n">> \o contacts_text
                       ELSE contacts_text
                  ELSE IF parts # <<>>
                       THEN join(parts, <<"\n", "\n">>) \o <<"\n", "\n">> \o contacts_text
                       ELSE contacts_text
    IN  IF Len(text) <= max_chars THEN text ELSE strip(result)


\* generate_fallback_cover_letter of resume_parser.py, for a profile without
\* title: greeting, interest, closing.
minimal_template(vacancy_title, company_name) ==
    <<"Dobryi", " ", "den", "!", "\n", "\n", "Menya zainteresovala vakansiya", " ">>
        \o vacancy_title \o <<" ", "v kompanii", " ">> \o company_name
        \o <<".", " ", "Gotov obsudit detali", ".">>

\* generate_fallback_cover_letter of generator.py, called without the vacancy
\* description: greeting, interest, position and first skills, closing, and
\* the signature block.
generate_fallback_cover_letter(resume, vacancy_title, company_name, config) ==
    LET bullets == [i \in DOMAIN resume.skills |->
                       IF resume.skills[i] \in {",", ";"} THEN "bullet"
                       ELSE resume.skills[i]]
        skills_parts == split(bullets, <<"bullet">>)
        first_three == prefix_of(skills_parts, 3)
        relevant_skills ==
            IF resume.skills = <<>> THEN <<>>
            ELSE SelectSeq([i \in DOMAIN first_three |-> strip(first_three[i])],
                           LAMBDA s : s # <<>>)
        exp_parts ==
            (IF resume.title # <<>>
             THEN << <<"Rabotayu na pozitsii", " ">> \o resume.title >> ELSE <<>>)
            \o (IF relevant_skills # <<>>
                THEN << <<"moi stek:", " ">>
                          \o join(prefix_of(relevant_skills, 4), <<",", " ">>) >>
                ELSE <<>>)
        parts ==
            << <<"Dobryi", " ", "den", "!">>,
               <<"Menya zainteresovala vakansiya", " ">> \o vacancy_title
                   \o <<" ", "v vashei kompanii", " ">> \o company_name \o <<".">> >>
            \o (IF exp_parts # <<>>
                THEN <<join(exp_parts, <<".", " ">>) \o <<".">> >> ELSE <<>>)
            \o << <<"Gotov obsudit detali i otvetit na vashi voprosy", ".">> >>
            \o (IF config.auth.telegram # <<>>
                THEN << <<>>, <<"Telegram:", " ", "@">> \o config.auth.telegram >>
                ELSE <<>>)
            \o (IF config.auth.name # <<>>
                THEN << <<>>, <<"S uvazheniem", ",", "\n">> \o config.auth.name >>
                ELSE << <<>>, <<"S uvazheniem", ",">> >>
                       \o (IF config.auth.email # <<>>
                           THEN <<split(config.auth.email, <<"@">>)[1]>> ELSE <<>>))
    IN  join(parts, <<"\n">>)

\* The values of AIGeneratorConfig.provider that generate_ai_cover_letter
\* tells apart.
AIProvider == {"openrouter", "groq", "auto"}

\* fallback_models of _generate_with_openrouter, models_to_try of
\* generate_with_groq
fallback_models ==
    <<"mistralai/mistral-7b-instruct:free", "meta-llama/llama-3.1-8b-instruct:free",
      "qwen/qwen-2.5-7b-instruct:free", "google/gemma-2-9b-it:free">>
models_to_try == <<"llama-3.1-8b-instant", "llama3-8b-8192", "mixtral-8x7b-32768">>

\* What client.post does: it raises (a transport error), or it returns a
\* response with a status; a 200 response carries choices or does not.  Of
\* the failure statuses, 429 is one the code names and 500 one it does not.
Responses ==
    {[raises |-> TRUE, status |-> 0, choices |-> FALSE]}
      \cup {[raises |-> FALSE, status |-> 200, choices |-> ch] : ch \in BOOLEAN}
      \cup {[raises |-> FALSE, status |-> st, choices |-> FALSE] : st \in {429, 500}}

\* data["choices"][0]["message"]["content"] of a model's reply
content_of(model) == <<" ", "letter", " ", "of", " ", model, "\n">>

\* The character budgets of the two generators (generator.py:201,
\* groq_generator.py:107) and the paragraph limit of _truncate_letter
OpenRouterMaxChars == 700
GroqMaxChars == 500
MaxParagraphs == 5

\* The letter _generate_with_openrouter makes of a reply (generator.py:197-205)
\* and the one generate_with_groq makes (groq_generator.py:100-109), with
\* max_chars for the budget.  Groq's letter is made without handle and name.
openrouter_letter(content, max_chars, config) ==
    ensure_letter_contacts(truncate_letter(clean_cover_letter(strip(content)),
                                           max_chars, MaxParagraphs),
                           config)
groq_letter(content, max_chars) ==
    smart_truncate(ensure_contacts(clean_cover_letter(strip(content)), <<>>, <<>>),
                   max_chars)


-----------------------------------------------------------------------------
(* One call of generate_cover_letter, step by step: the steps are the calls *)
(* of client.post, each of which the provider answers as it likes.          *)

\* gen with one more call of client.post on record
Posted(provider, model, r) ==
    [gen EXCEPT !.calls = Append(@, [provider |-> provider, model |-> model,
                                      response |-> r])]

\* generate_cover_letter, up to the call of generate_ai_cover_letter or of
\* the template generator
GenerateCoverLetter ==
    /\ gen.pc = "call"
    /\ gen' = [gen EXCEPT !.pc = IF use_ai_cover_letter(cfg) THEN "ai" ELSE "template"]
    /\ UNCHANGED <<ledgerVars, now, cfg, sessionVars, cut, cli>>

\* generate_ai_cover_letter, up to the call of a provider's generator: None
\* when disabled or without httpx, else by config.provider.
GenerateAiCoverLetter ==
    /\ gen.pc = "ai"
    /\ gen' = [gen EXCEPT !.pc =
                  IF ~cfg.cover_letter.ai.enabled \/ ~gen.has_httpx THEN "template"
                  ELSE IF gen.provider = "groq" THEN "groq"
                  ELSE "openrouter"]
    /\ UNCHANGED <<ledgerVars, now, cfg, sessionVars, cut, cli>>

\* _generate_with_openrouter has returned `text` (<<>> for None):
\* generate_ai_cover_letter returns it, or in auto mode goes on to Groq when
\* it is empty; generate_cover_letter returns a letter that is not empty.
AfterOpenRouterAlwaysGroq(g, text) ==
    IF gen.provider = "auto" THEN gen' = [g EXCEPT !.pc = "groq"]
    ELSE IF text # <<>>
    THEN gen' = [g EXCEPT !.pc = "returned", !.result = [raised |-> FALSE, text |-> text]]
    ELSE gen' = [g EXCEPT !.pc = "template"]
AfterOpenRouter(g, text) ==
    IF text # <<>>
    THEN gen' = [g EXCEPT !.pc = "returned", !.result = [raised |-> FALSE, text |-> text]]
    ELSE IF gen.provider = "auto" THEN gen' = [g EXCEPT !.pc = "groq"]
    ELSE gen' = [g EXCEPT !.pc = "template"]

\* response.raise_for_status(), response.json() and the extraction of the
\* letter: <<>> for the None of a failed status or of a reply without choices
openrouter_result(r, model, config) ==
    IF r.status # 200 THEN <<>>
    ELSE IF r.choices THEN openrouter_letter(content_of(model), OpenRouterMaxChars, config)
    ELSE <<>>

\* The next fallback model, config.model or not
next_fallbackNoSkip(i, primary) == IF i <= Len(fallback_models) THEN i ELSE 0

\* The first fallback model from position i on that is not config.model; 0
\* when there is none.
next_fallback(i, primary) ==
    IF \E j \in i..Len(fallback_models) : fallback_models[j] # primary
    THEN CHOOSE j \in i..Len(fallback_models) :
            /\ fallback_models[j] # primary
            /\ \A k \in i..(j - 1) : fallback_models[k] = primary
    ELSE 0

\* _generate_with_openrouter: the request with config.model.  A transport
\* error ends it with None; 429 and 404 lead to the fallback models; any
\* other reply is the one the letter is taken from.
OpenRouterPrimaryPropagates ==
    /\ gen.pc = "openrouter"
    /\ \E r \in Responses :
          LET g == Posted("openrouter", cfg.cover_letter.ai.model, r)
          IN  IF r.raises
              THEN gen' = [g EXCEPT !.pc = "returned",
                                    !.result = [raised |-> TRUE, text |-> <<>>]]
              ELSE IF r.status \in {429, 404}
              THEN gen' = [g EXCEPT !.pc = "openrouter_fallback", !.i = 1]
              ELSE AfterOpenRouter(g, openrouter_result(r, cfg.cover_letter.ai.model, cfg))
    /\ UNCHANGED <<ledgerVars, now, cfg, sessionVars, cut, cli>>
OpenRouterPrimary ==
    /\ gen.pc = "openrouter"
    /\ \E r \in Responses :
          LET g == Posted("openrouter", cfg.cover_letter.ai.model, r)
          IN  IF r.raises THEN AfterOpenRouter(g, <<>>)
              ELSE IF r.status \in {429, 404}
              THEN gen' = [g EXCEPT !.pc = "openrouter_fallback", !.i = 1]
              ELSE AfterOpenRouter(g, openrouter_result(r, cfg.cover_letter.ai.model, cfg))
    /\ UNCHANGED <<ledgerVars, now, cfg, sessionVars, cut, cli>>

\* One turn of the loop over fallback_models: the next model that is not
\* config.model is asked.  A transport error ends the generator with None; a
\* 200 reply breaks the loop and is the one the letter is taken from; after
\* any other reply the loop goes on, and when the list is used up the last
\* reply fails raise_for_status.
OpenRouterFallbackNoBreak ==
    /\ gen.pc = "openrouter_fallback"
    /\ \E r \in Responses :
          LET model == fallback_models[next_fallback(gen.i, cfg.cover_letter.ai.model)]
              g == Posted("openrouter", model, r)
              after == next_fallback(next_fallback(gen.i, cfg.cover_letter.ai.model) + 1,
                                     cfg.cover_letter.ai.model)
          IN  IF r.raises THEN AfterOpenRouter(g, <<>>)
              ELSE IF after # 0
              THEN gen' = [g EXCEPT !.i = after]
              ELSE AfterOpenRouter(g, openrouter_result(r, model, cfg))
    /\ UNCHANGED <<ledgerVars, now, cfg, sessionVars, cut, cli>>
OpenRouterFallback ==
    /\ gen.pc = "openrouter_fallback"
    /\ \E r \in Responses :
          LET model == fallback_models[next_fallback(gen.i, cfg.cover_letter.ai.model)]
              g == Posted("openrouter", model, r)
              after == next_fallback(next_fallback(gen.i, cfg.cover_letter.ai.model) + 1,
                                     cfg.cover_letter.ai.model)
          IN  IF r.raises THEN AfterOpenRouter(g, <<>>)
              ELSE IF r.status # 200 /\ after # 0
              THEN gen' = [g EXCEPT !.i = after]
              ELSE AfterOpenRouter(g, openrouter_result(r, model, cfg))
    /\ UNCHANGED <<ledgerVars, now, cfg, sessionVars, cut, cli>>

\* generate_with_groq, up to its loop: None without an API key.
GroqStart ==
    /\ gen.pc = "groq"
    /\ gen' = [gen EXCEPT !.pc = IF cfg.cover_letter.ai.api_key = <<>> THEN "template"
                                 ELSE "groq_loop",
                          !.i = 1]
    /\ UNCHANGED <<ledgerVars, now, cfg, sessionVars, cut, cli>>

\* One turn of the loop over models_to_try.  A transport error ends the
\* generator with None; a 200 reply with choices gives the letter, which
\* generate_ai_cover_letter and generate_cover_letter return; after any other
\* reply the loop goes on, and ends with None when the list is used up.
GroqCall ==
    /\ gen.pc = "groq_loop"
    /\ \E r \in Responses :
          LET model == models_to_try[gen.i]
              g == Posted("groq", model, r)
          IN  IF r.raises THEN gen' = [g EXCEPT !.pc = "template"]
              ELSE IF r.status = 200 /\ r.choices
              THEN gen' = [g EXCEPT !.pc = "returned",
                                    !.result = [raised |-> FALSE,
                                                text |-> groq_letter(content_of(model), GroqMaxChars)]]
              ELSE IF gen.i < Len(models_to_try) THEN gen' = [g EXCEPT !.i = @ + 1]
              ELSE gen' = [g EXCEPT !.pc = "template"]
    /\ UNCHANGED <<ledgerVars, now, cfg, sessionVars, cut, cli>>

\* The vacancy the letter is for
LetterTitle == <<"B", "a">>
LetterCompany == <<"c">>

\* generate_cover_letter returning the letter of resume_parser.py's own
\* template generator for a profile without title
FallbackLetterMinimal ==
    /\ gen.pc = "template"
    /\ gen' = [gen EXCEPT !.pc = "returned",
                          !.result = [raised |-> FALSE,
                                      text |-> minimal_template(LetterTitle,
                                                                LetterCompany)]]
    /\ UNCHANGED <<ledgerVars, now, cfg, sessionVars, cut, cli>>

\* generate_cover_letter: the template generator, and the return of its
\* letter
FallbackLetter ==
    /\ gen.pc = "template"
    /\ gen' = [gen EXCEPT !.pc = "returned",
                          !.result = [raised |-> FALSE,
                                      text |-> generate_fallback_cover_letter(
                                                   gen.resume, LetterTitle,
                                                   LetterCompany, cfg)]]
    /\ UNCHANGED <<ledgerVars, now, cfg, sessionVars, cut, cli>>

\* AuthConfig of the configurations explored: no contacts, or email, handle
\* and name
LetterAuths ==
    {[email |-> <<>>, telegram |-> <<>>, name |-> <<>>],
     [email |-> <<"e", "@", "x">>, telegram |-> <<"t", "g">>, name |-> <<"N">>]}
\* A call of generate_cover_letter: every combination of the switches, a
\* primary model outside the fallback list (the default of config.py) and
\* inside it, with and without API key; a ResumeInfo without title and
\* skills or with both (the profiles of the model have no "about" section);
\* every provider setting, with and without httpx.
InitLetter ==
    /\ InitLedgerVars /\ InitSession
    /\ now = 0
    /\ cfg \in {[Config(<<>>, <<>>, TRUE, TRUE, en, <<"t">>, 1, 1)
                    EXCEPT !.cover_letter.ai.enabled = ai,
                           !.cover_letter.ai.api_key = key,
                           !.cover_letter.ai.model = model, !.auth = auth] :
                   en \in BOOLEAN, ai \in BOOLEAN, key \in {<<>>, <<"k">>},
                   model \in {"deepseek/deepseek-chat:free", fallback_models[2]},
                   auth \in LetterAuths}
    /\ cut = NoCut /\ cli = NoCli
    /\ gen \in {[pc |-> "call", resume |-> r, provider |-> p, has_httpx |-> h,
                 calls |-> <<>>, i |-> 0, result |-> [raised |-> FALSE, text |-> <<>>]] :
                   r \in {[present |-> TRUE, title |-> <<>>, about |-> <<>>,
                           skills |-> <<>>],
                          [present |-> TRUE, title |-> <<"a">>, about |-> <<>>,
                           skills |-> <<"b", ",", " ", "c">>]},
                   p \in AIProvider, h \in BOOLEAN}

NextLetter ==
    \/ GenerateCoverLetter
    \/ GenerateAiCoverLetter
    \/ OpenRouterPrimary
    \/ OpenRouterFallback
    \/ GroqStart
    \/ GroqCall
    \/ FallbackLetter

SpecLetter == InitLetter /\ [][NextLetter]_vars


-----------------------------------------------------------------------------
(* Properties of the cover letter pipeline *)

\* The calls made so far to one provider, in order, and the models asked
CallsTo(provider) == SelectSeq(gen.calls, LAMBDA c : c.provider = provider)
ModelsOf(calls) == [k \in DOMAIN calls |-> calls[k].model]

\* A reply that yields a letter, and a reply that is a failure of any kind
Usable(r) == ~r.raises /\ r.status = 200 /\ r.choices
Failure(r) == ~Usable(r)

C23_MinimalTemplateWithoutProfile ==
    (~cfg.cover_letter.enabled \/ gen.resume.title = <<>>)
        => /\ gen.calls = <<>>
           /\ gen.pc = "returned"
                => gen.result.text = minimal_template(LetterTitle, LetterCompany)

\* C24: within OpenRouter, when the reply to a model is a failure of any
\* kind and a fallback model other than the primary is left, that model is
\* asked next.
C24_AnyFailureFallsBack ==
    [][(/\ gen.pc \in {"openrouter", "openrouter_fallback"}
        /\ Len(gen'.calls) = Len(gen.calls) + 1
        /\ Failure(gen'.calls[Len(gen'.calls)].response)
        /\ next_fallback(IF gen.pc = "openrouter" THEN 1
                         ELSE next_fallback(gen.i, cfg.cover_letter.ai.model) + 1,
                         cfg.cover_letter.ai.model) # 0)
          => /\ gen'.pc = "openrouter_fallback"
             /\ gen'.i = next_fallback(IF gen.pc = "openrouter" THEN 1
                                       ELSE next_fallback(gen.i, cfg.cover_letter.ai.model) + 1,
                                       cfg.cover_letter.ai.model)]_vars

\* The fallback models other than the primary, in the order of the list
OtherFallbacks == SelectSeq(fallback_models, LAMBDA m : m # cfg.cover_letter.ai.model)
IsPrefix(s, full) == Len(s) <= Len(full) /\ s = SubSeq(full, 1, Len(s))
NoModelTwice(calls) ==
    \A j, k \in DOMAIN calls : calls[j].model = calls[k].model => j = k

C26_FirstSuccessWins ==
    \A k \in DOMAIN gen.calls :
        Usable(gen.calls[k].response)
            => /\ k = Len(gen.calls)
               /\ gen.pc = "returned"
               /\ Contains(strip(content_of(gen.calls[k].model)), gen.result.text)
               /\ \A j \in DOMAIN gen.calls :
                     gen.calls[j].model # gen.calls[k].model
                        => ~Contains(<<gen.calls[j].model>>, gen.result.text)

\* The third fallback model gave a usable reply after the primary and two
\* fallback models had failed.
C26_Witness ==
    /\ Len(gen.calls) = 4 /\ Usable(gen.calls[4].response)
    /\ gen.calls[4].provider = "openrouter" /\ gen.pc = "returned"

C28_TemplateWhenAiFails ==
    (gen.pc = "returned" /\ \A k \in DOMAIN gen.calls : Failure(gen.calls[k].response))
        => gen.result.text = generate_fallback_cover_letter(gen.resume, LetterTitle,
                                                            LetterCompany, cfg)

\* Every model of both providers was asked and failed, and the template
\* letter of a profile with title was returned.
C28_Witness ==
    /\ gen.pc = "returned" /\ gen.resume.title # <<>>
    /\ Len(CallsTo("openrouter")) = Len(fallback_models) + 1
    /\ Len(CallsTo("groq")) = Len(models_to_try)
    /\ Contains(<<"Rabotayu na pozitsii">>, gen.result.text)



-----------------------------------------------------------------------------
(* The post-processing of a provider's reply on its own: a text and a       *)
(* budget are drawn, and each generator's post-processing is applied.       *)

\* The budget of the short texts, and the length of their enumerated tail
CutBudget == 14
MaxTail == 6

\* _generate_with_openrouter from the reply on (generator.py:197-205), with
\* the result of _truncate_letter on the reply itself kept next to the letter
PostProcessOpenRouter ==
    /\ cut.pc = "input"
    /\ cut' = [cut EXCEPT !.pc = "openrouter",
                          !.truncated = truncate_letter(cut.text, cut.max_chars,
                                                        MaxParagraphs),
                          !.openrouter = openrouter_letter(cut.text, cut.max_chars, cfg)]
    /\ UNCHANGED <<ledgerVars, now, cfg, sessionVars, gen, cli>>

\* generate_with_groq from the reply on (groq_generator.py:100-109), with the
\* result of _smart_truncate on the reply itself kept next to the letter
PostProcessGroq ==
    /\ cut.pc = "input"
    /\ cut' = [cut EXCEPT !.pc = "groq",
                          !.smart = smart_truncate(cut.text, cut.max_chars),
                          !.groq = groq_letter(cut.text, cut.max_chars)]
    /\ UNCHANGED <<ledgerVars, now, cfg, sessionVars, gen, cli>>

\* _ensure_letter_contacts applied to the letter it has made
EnsureAgain ==
    /\ cut.pc = "openrouter"
    /\ cut' = [cut EXCEPT !.pc = "again",
                          !.again = ensure_letter_contacts(cut.openrouter, cfg)]
    /\ UNCHANGED <<ledgerVars, now, cfg, sessionVars, gen, cli>>

\* The replies explored.  Short ones, with budget CutBudget: nothing or a run
\* of letters that reaches beyond 70% of the budget, followed by every tail of
\* letters, punctuation and spaces.  Long ones, with the budgets of the two
\* generators: one paragraph with two sentence ends beyond 70% of 700, one
\* paragraph without sentence end, four paragraphs of which the second has a
\* sentence end, a greeting followed in its paragraph by a long sentence, and
\* short letters that end with a closing phrase and a name, or with a handle
\* line and a standalone handle.
InitCut ==
    LET Filler(n) == [i \in 1..n |-> "a"]
        ShortTexts ==
            {Filler(k) \o t : k \in {0, (7 * CutBudget) \div 10 + 1},
                              t \in SeqsUpTo({"a", ".", "!", " "}, MaxTail)}
        LongTexts ==
            {Filler(500) \o <<".", " ">> \o Filler(100) \o <<"!", " ">> \o Filler(200),
             Filler(OpenRouterMaxChars + 100),
             Filler(200) \o <<"\n", "\n">> \o Filler(250) \o <<".", " ">> \o Filler(300)
                 \o <<"\n", "\n">> \o Filler(20) \o <<".">> \o <<"\n", "\n">>
                 \o Filler(10),
             <<"Dobryi", " ", "den", "!", " ">> \o Filler(GroqMaxChars + 100)
                 \o <<"\n", "\n">> \o Filler(5) \o <<"\n", "\n">> \o Filler(5),
             <<"Dobryi", " ", "den", "!", "\n", "\n", "a", ".", "\n", "\n",
               "S uvazheniem", ",", "\n", "N">>,
             <<"Dobryi", " ", "den", "!", "\n", "\n", "a", ".", "\n", "\n",
               "Telegram:", " ", "@", "t", "g", "\n", "@", "t", "g">>}
        Input(t, b) == [pc |-> "input", text |-> t, max_chars |-> b, truncated |-> <<>>,
                        smart |-> <<>>, openrouter |-> <<>>, groq |-> <<>>,
                        again |-> <<>>]
    IN  /\ InitLedgerVars /\ InitSession
        /\ now = 0
        /\ cfg \in {[Config(<<>>, <<>>, TRUE, TRUE, TRUE, <<"t">>, 1, 1)
                        EXCEPT !.auth = auth] : auth \in LetterAuths}
        /\ gen = NoGen /\ cli = NoCli
        /\ cut \in {Input(t, CutBudget) : t \in ShortTexts}
                     \cup {Input(t, b) : t \in LongTexts,
                                         b \in {GroqMaxChars, OpenRouterMaxChars}}

NextCut ==
    \/ PostProcessOpenRouter
    \/ PostProcessGroq
    \/ EnsureAgain

SpecCut == InitCut /\ [][NextCut]_vars


-----------------------------------------------------------------------------
(* Properties of the post-processing *)

\* The allowance over the budget: the length of an appended ellipsis
Allowance == Len(<<".", ".", ".">>)

\* A final letter within the budget, with terminal punctuation when the text
\* it was made of was longer than the budget
WithinBudget(letter, before, max_chars) ==
    /\ Len(letter) <= max_chars + Allowance
    /\ Len(before) > max_chars => ends_sentence(letter)

\* C29: the final letter of either generator is at most the budget plus a
\* small fixed allowance long, and ends in . ! or ? whenever the text was
\* truncated.
C29_WithinBudgetAndPunctuated ==
    /\ cut.pc = "openrouter"
          => WithinBudget(cut.openrouter, clean_cover_letter(strip(cut.text)), cut.max_chars)
    /\ cut.pc = "groq"
          => WithinBudget(cut.groq,
                          ensure_contacts(clean_cover_letter(strip(cut.text)), <<>>, <<>>),
                          cut.max_chars)

\* The positions where a sentence of text ends (punctuation followed by a
\* space or a line break) within the first max_chars characters, beyond the
\* part of the budget below which _truncate_letter accepts no cut
Boundaries(text, max_chars) ==
    {p \in 1..(max_chars - 1) :
        /\ text[p] \in {".", "!", "?"}
        /\ text[p + 1] \in {" ", "\n"}
        /\ 10 * (p - 1) > 7 * max_chars}

\* C30: _truncate_letter cuts a text of one paragraph that is longer than the
\* budget at the sentence end nearest to the budget, or, where there is none,
\* at the budget, with a period appended to a result without terminal
\* punctuation; the result ends in . ! or ? either way.
C30_NearestBoundary ==
    (/\ cut.pc = "openrouter"
     /\ cut.text = strip(cut.text) /\ find(cut.text, <<"\n", "\n">>) = -1
     /\ Len(cut.text) > cut.max_chars)
        => LET ends == Boundaries(cut.text, cut.max_chars)
               nearest == CHOOSE p \in ends : \A q \in ends : q <= p
               hard == strip(prefix_of(cut.text, cut.max_chars))
           IN  /\ ends_sentence(cut.truncated)
               /\ cut.truncated = IF ends # {} THEN strip(prefix_of(cut.text, nearest))
                                  ELSE IF ends_sentence(hard) THEN hard
                                  ELSE hard \o <<".">>



-----------------------------------------------------------------------------
(* Properties of the greeting and of the signature block *)

\* The signature block of the configuration: the handle line, then the
\* closing phrase and the name (auth.name, or the local part of auth.email)
SignatureName(config) ==
    IF config.auth.name # <<>> THEN config.auth.name
    ELSE IF config.auth.email # <<>> THEN split(config.auth.email, <<"@">>)[1]
    ELSE <<>>
SignatureBlock(config) ==
    (IF config.auth.telegram # <<>>
     THEN <<"\n", "\n", "Telegram:", " ", "@">> \o config.auth.telegram ELSE <<>>)
    \o (IF SignatureName(config) # <<>>
        THEN <<"\n", "\n", "S uvazheniem", ",", "\n">> \o SignatureName(config)
        ELSE <<>>)

\* How often the word occurs in the text
CountOf(word, text) == Cardinality({k \in DOMAIN text : text[k] = word})

\* The letter ends with the signature block of the configuration and has no
\* other handle line or closing phrase.
OneSignature(letter, config) ==
    SignatureBlock(config) # <<>>
        => /\ Len(letter) >= Len(SignatureBlock(config))
           /\ SubSeq(letter, Len(letter) - Len(SignatureBlock(config)) + 1, Len(letter))
                 = SignatureBlock(config)
           /\ CountOf("Telegram:", letter) = CountOf("Telegram:", SignatureBlock(config))
           /\ CountOf("S uvazheniem", letter)
                 = CountOf("S uvazheniem", SignatureBlock(config))

\* C31: with a handle or a name configured, the final letter of either
\* provider path ends with the one signature block and holds no other handle
\* line or closing phrase, whatever the reply held.
C31_ExactlyOneSignature ==
    /\ cut.pc = "openrouter" => OneSignature(cut.openrouter, cfg)
    /\ cut.pc = "groq" => OneSignature(cut.groq, cfg)

\* The text begins with one of the approved greetings
Greeted(text) ==
    \E g \in {"dobryi", "zdravstvuite", "uvazhaemyi"} : startswith(lower_word(text), <<g>>)

\* C32: the final letter of either provider path begins with an approved
\* greeting.
C32_BeginsWithGreeting ==
    /\ cut.pc = "openrouter" => Greeted(cut.openrouter)
    /\ cut.pc = "groq" => Greeted(cut.groq)

\* C33: the letter the Groq path makes of a reply is the one the steps of the
\* OpenRouter path (artifact stripping, greeting, budget, paragraph cap,
\* signature) make of the same reply with the same budget.
C33_SameStepsOnEveryPath ==
    cut.pc = "groq" => cut.groq = openrouter_letter(cut.text, cut.max_chars, cfg)

\* C39: _ensure_letter_contacts returns its own output unchanged.
C39_SignatureIdempotent ==
    cut.pc = "again" => cut.again = cut.openrouter



-----------------------------------------------------------------------------
(* Properties of the probes after the click, and of employer questions *)

\* The position of the first step of the kind in the steps of an attempt, and
\* of its first outcome-surface handler; one past the end when there is none
FirstStep(kind, steps) ==
    IF \E i \in DOMAIN steps : steps[i] = kind
    THEN CHOOSE i \in DOMAIN steps :
            steps[i] = kind /\ \A j \in 1..(i - 1) : steps[j] # kind
    ELSE Len(steps) + 1
FirstSurface(steps) ==
    IF \E i \in DOMAIN steps : IsHandler(steps[i])
    THEN CHOOSE i \in DOMAIN steps :
            IsHandler(steps[i]) /\ \A j \in 1..(i - 1) : ~IsHandler(steps[j])
    ELSE Len(steps) + 1

\* apply_to_vacancy has returned or raised after clicking the apply control
Clicked ==
    pc = "apply_returned" /\ attempt.page.apply_btn /\ ~attempt.page.click_raises

\* After the click the location probe runs, then the photo probe, and both
\* before the first outcome-surface handler
ProbesInOrder(steps) ==
    /\ steps[1] = "click_apply"
    /\ FirstStep("probe_location", steps) = 2
    /\ FirstStep("probe_location", steps) < FirstStep("probe_photo", steps)
    /\ FirstStep("probe_photo", steps) < FirstSurface(steps)
    /\ FirstStep("probe_photo", steps) <= Len(steps)

\* The step is taken between positions a and b of the steps
Between(kind, steps, a, b) == \E i \in DOMAIN steps : a < i /\ i < b /\ steps[i] = kind

\* C34 as stated: the probes run in order before outcome detection, and a
\* warning that is shown has been dismissed before outcome detection.
C34_ProbesThenDismissed ==
    Clicked
        => LET steps == attempt.out.steps
           IN  /\ ProbesInOrder(steps)
               /\ attempt.page.location # "absent"
                     => Between("dismiss_location", steps,
                                FirstStep("probe_location", steps),
                                FirstStep("probe_photo", steps))
               /\ attempt.page.photo
                     => Between("dismiss_photo", steps, FirstStep("probe_photo", steps),
                                FirstSurface(steps))

\* What the code does: the probes run in order before outcome detection; a
\* location warning shown with its continue button and a photo prompt are
\* dismissed before outcome detection; a location warning shown without a
\* continue button is left as it is, and the attempt goes on to the photo
\* probe.
C34_ProbesThenDismissedIfButton ==
    Clicked
        => LET steps == attempt.out.steps
           IN  /\ ProbesInOrder(steps)
               /\ attempt.page.location = "present"
                     => Between("dismiss_location", steps,
                                FirstStep("probe_location", steps),
                                FirstStep("probe_photo", steps))
               /\ attempt.page.location = "no_button"
                     => /\ FirstStep("probe_photo", steps) = 3
                        /\ \A i \in DOMAIN steps : steps[i] # "dismiss_location"
               /\ attempt.page.photo
                     => Between("dismiss_photo", steps, FirstStep("probe_photo", steps),
                                FirstSurface(steps))

\* C35: a probe that times out counts as a prompt that is absent.  With no
\* location warning and no photo prompt the attempt goes from the click
\* through both probes without a dismissal; a dialog that is found and is not
\* visible when waited for is not handled, and the attempt ends as it does on
\* the same page without dialog; with the inline success marker there and no
\* parsed resume that is a success.
C35_ProbeTimeoutIsAbsent ==
    Clicked
        => LET steps == attempt.out.steps
               p == attempt.page
           IN  /\ p.location = "absent" => SubSeq(steps, 1, 3)
                                            = <<"click_apply", "probe_location", "probe_photo">>
               /\ ~p.photo => \A i \in DOMAIN steps : steps[i] # "dismiss_photo"
               /\ p.modal = "vanishes"
                     => /\ \A i \in DOMAIN steps : steps[i] # "modal"
                        /\ attempt.out
                             = apply_to_vacancy([p EXCEPT !.modal = "absent"], details,
                                                cfg.resume.preferred_title,
                                                attempt.resume_info, cfg)
               /\ (/\ p.location = "absent" /\ ~p.photo /\ p.modal # "visible"
                   /\ PrioritySurface(p) = <<"inline">> /\ ~has_title(attempt.resume_info))
                     => attempt.out.result = "True"

\* Both probes and the wait for the dialog timed out, and the attempt ended
\* as a success on the inline marker.
C35_Witness ==
    /\ Clicked /\ attempt.page.location = "absent" /\ ~attempt.page.photo
    /\ attempt.page.modal = "vanishes"
    /\ attempt.out.steps = <<"click_apply", "probe_location", "probe_photo", "inline">>
    /\ attempt.out.result = "True"

\* The response dialog of the attempt holds employer questions, and
\* skip_with_tests is set
QuestionsSkipped ==
    /\ Clicked /\ attempt.page.modal = "visible"
    /\ attempt.page.questions /\ cfg.filters.skip_with_tests

\* C40: with employer questions in the response dialog and skip_with_tests
\* set, the attempt returns False without selecting a resume, typing a letter
\* or clicking submit; run_session counts one skip with reason apply_failed,
\* counts nothing else, and writes no ledger record: the id is still unseen
\* when the next card is taken.
C40_QuestionsLeaveNoRecord ==
    [][QuestionsSkipped
          => /\ attempt.out.result = "False"
             /\ attempt.out.resume_clicks = <<>>
             /\ \A i \in DOMAIN attempt.out.steps :
                   attempt.out.steps[i] \notin {"select_resume", "generate_cover_letter",
                                                "format_template", "type_letter", "submit"}
             /\ stats' = CountSkip(stats, <<"apply_failed">>)
             /\ stats'.applied = stats.applied /\ stats'.errors = stats.errors
             /\ UNCHANGED ledgerVars
             /\ ~Running' /\ ~has_seen(disk', card.vacancy_id)
             /\ pc' = "card_loop"]_vars

\* An attempt ended at the employer questions of a dialog that offered
\* resumes and a letter field.
C40_Witness ==
    /\ QuestionsSkipped
    /\ attempt.page.resumes # <<>> /\ attempt.page.letter_field
    /\ attempt.out.steps[Len(attempt.out.steps)] = "modal"



-----------------------------------------------------------------------------
(* Properties of the statistics and of the end of a session *)

\* The sum of the counts of a skip-reason histogram: the number of pairs of
\* a reason and one of the skips counted under it
HistogramTotal(st) ==
    Cardinality(UNION {{<<k, n>> : n \in 1..st.skip_reasons[k]} : k \in DOMAIN st.skip_reasons})

\* run_session is inside its loops
InLoops ==
    pc \in {"page_loop", "search", "card_loop", "quick", "quick_done", "fetch", "fetched",
            "deep", "deep_done", "apply", "apply_returned", "applied", "count_applied",
            "complete"}

\* The step ends the processing of a listing: the card loop goes on to the
\* next card
ListingDone == idx > 0 /\ idx' = idx + 1 /\ pc' = "card_loop"

\* stats.skipped is the sum of the counts of stats.skip_reasons
SkippedIsTotal(st) == st.skipped = HistogramTotal(st)

\* C38: stats.skipped is the sum of the counts of stats.skip_reasons in every
\* state: it is so at the start and after every step that changes the
\* statistics; the step of run_session that ends the processing of a listing
\* adds one to exactly one of applied, skipped and errors and leaves the two
\* others; every other step inside the loops leaves the statistics as they
\* are.
C38_SkippedIsHistogramTotal ==
    /\ SkippedIsTotal(stats)
    /\ [][IF ListingDone
          THEN /\ SkippedIsTotal(stats')
               /\ \/ /\ stats'.applied = stats.applied + 1
                     /\ stats'.skipped = stats.skipped /\ stats'.errors = stats.errors
                  \/ /\ stats'.skipped = stats.skipped + 1
                     /\ stats'.applied = stats.applied /\ stats'.errors = stats.errors
                  \/ /\ stats'.errors = stats.errors + 1
                     /\ stats'.applied = stats.applied /\ stats'.skipped = stats.skipped
          ELSE \/ stats' = stats
               \/ /\ SkippedIsTotal(stats')
                  /\ ~InLoops \/ pc' \in {"idle", "raised"}]_vars

\* A session has finished its pages with two skips counted under one reason.
C38_Witness ==
    /\ pc = "complete" /\ stats.skipped = 2
    /\ Cardinality(DOMAIN stats.skip_reasons) = 1

\* run_session is running: from its preamble to its return statement
InSession == pc = "preamble" \/ InLoops

\* How far run_session has come: pages before cards, cards in their order on
\* the page, the steps of a listing in their order, a ledger call before its
\* return
StepRank(at) ==
    CASE at = "card_loop" -> 0 [] at = "quick" -> 1 [] at = "quick_done" -> 2
      [] at = "fetch" -> 3 [] at = "fetched" -> 4 [] at = "deep" -> 5
      [] at = "deep_done" -> 6 [] at = "apply" -> 7 [] at = "apply_returned" -> 8
      [] at = "applied" -> 9 [] at = "count_applied" -> 10 [] OTHER -> 0
Progress(at, pn, i, running) ==
    << IF at = "preamble" THEN 0 ELSE IF at = "complete" THEN 2 ELSE 1,
       pn,
       IF at = "page_loop" THEN 0 ELSE IF at = "search" THEN 1 ELSE 2,
       i, StepRank(at), IF running THEN 0 ELSE 1 >>
RECURSIVE LexLess(_, _)
LexLess(a, b) ==
    /\ a # <<>>
    /\ \/ Head(a) < Head(b)
       \/ Head(a) = Head(b) /\ LexLess(Tail(a), Tail(b))

\* Every step of a session moves it forward in a finite order, so that it
\* ends; a search page is fetched only below max_pages pages and below the
\* ceiling of applications, and an empty page ends the loops; after the
\* loops the statistics are returned.
SessionAdvances ==
    InSession
        => /\ page_num <= cfg.search.max_pages /\ idx <= Len(cards) + 1
           /\ InSession' => LexLess(Progress(pc, page_num, idx, Running),
                                     Progress(pc', page_num', idx', Running'))
           /\ pc = "search" => /\ page_num < cfg.search.max_pages
                               /\ ~ceiling_reached(stats, cfg)
                               /\ gotos' > gotos \/ pc' = "idle"
           /\ (pc = "search" /\ cards' = <<>>) => pc' \in {"complete", "idle"}
           /\ (pc # "search" /\ InSession') => cards' = cards \/ cards' = <<>>
           /\ pc = "complete" => pc' = "idle"

\* C36: run_session terminates when every collaborator call returns or
\* raises: it fetches at most max_pages search pages, none after an empty
\* page or after the ceiling of applications is reached, and it ends by
\* returning its statistics: no exception leaves it.
C36_TerminatesReturningStats ==
    [][SessionAdvances /\ (InSession => pc' # "raised")]_vars

\* What the code does: the same, except that an exception of a collaborator
\* call made outside a try statement leaves run_session.
C36_TerminatesOrRaises == [][SessionAdvances]_vars


-----------------------------------------------------------------------------
(* The command line of the run command and the configuration singleton *)

\* A key of cli_opts is the dotted path of a field, "limits.max_applications_
\* per_session"; here it is the pair of its two parts.  A dict is a function
\* whose domain is the set of its keys, the empty dict the empty function.

\* _apply_overrides: for every key, setattr(getattr(config, section), field,
\* value)
apply_overrides(config, overrides) ==
    [section \in DOMAIN config |->
        [field \in DOMAIN config[section] |->
            IF <<section, field>> \in DOMAIN overrides
            THEN overrides[<<section, field>>]
            ELSE config[section][field]]]

\* load_config: the file is validated into a Config, and the module's
\* _cli_overrides, when the dict is not empty, are applied to it
load_configIgnoresOverrides(file, overrides) == file
load_config(file, overrides) ==
    IF DOMAIN overrides # {} THEN apply_overrides(file, overrides) ELSE file

\* main._load_config(config_path, cli_opts): load_config(config_path) first,
\* then set_cli_overrides(cli_opts) when cli_opts is not empty.  The module
\* then holds the very dict object that main.run keeps as cli_opts.
LoadConfig ==
    /\ cli.pc = "run"
    /\ cfg' = load_config(cli.file, cli.overrides)
    /\ cli' = [cli EXCEPT !.pc = "loaded",
                          !.overrides = IF DOMAIN cli.opts # {} THEN cli.opts ELSE @,
                          !.aliased = DOMAIN cli.opts # {}]
    /\ UNCHANGED <<ledgerVars, now, sessionVars, gen, cut>>

\* main.run, `if interactive or not query:` the prompt for the Telegram
\* handle, shown when neither the file nor the command line gave one.  An
\* answer is added to cli_opts (and so to _cli_overrides when that is the
\* same dict) and _load_config is called again.  (The prompt for the name
\* that follows reads auth.name, which config.py does not declare; it is not
\* part of this specification.)
PromptTelegram ==
    /\ cli.pc = "loaded" /\ cli.interactive
    /\ \E tg \in {<<>>, <<"t", "g">>} :
          IF cfg.auth.telegram = <<>> /\ <<"auth", "telegram">> \notin DOMAIN cli.opts
                /\ tg # <<>>
          THEN LET opts == [k \in (DOMAIN cli.opts) \cup {<<"auth", "telegram">>} |->
                               IF k = <<"auth", "telegram">> THEN tg ELSE cli.opts[k]]
                   held == IF cli.aliased THEN opts ELSE cli.overrides
               IN  /\ cfg' = load_config(cli.file, held)
                   /\ cli' = [cli EXCEPT !.pc = "prompted", !.opts = opts,
                                         !.overrides = opts, !.aliased = TRUE]
          ELSE /\ cfg' = cfg
               /\ cli' = [cli EXCEPT !.pc = "prompted"]
    /\ UNCHANGED <<ledgerVars, now, sessionVars, gen, cut>>

\* run_session: cfg = get_config(), which returns the module's _config as
\* load_config left it
RunSessionReadsConfig ==
    /\ \/ cli.pc = "loaded" /\ ~cli.interactive
       \/ cli.pc = "prompted"
    /\ cfg' = cfg
    /\ cli' = [cli EXCEPT !.pc = "session"]
    /\ UNCHANGED <<ledgerVars, now, sessionVars, gen, cut>>

\* The process has started and main.run has built cli_opts from its options:
\* _config is None and _cli_overrides is the empty dict of the module.  The
\* files and the command lines explored give or omit --max-pages, --max-apps,
\* --skip-tests / --no-skip-tests and --telegram.
InitCli ==
    LET Files == {[Config(<<>>, <<>>, swt, TRUE, FALSE, <<"t">>, mp, ma)
                       EXCEPT !.auth.telegram = tg] :
                     swt \in BOOLEAN, mp \in 1..2, ma \in 1..2,
                     tg \in {<<>>, <<"f">>}}
        Keys == {<<"search", "max_pages">>, <<"limits", "max_applications_per_session">>,
                 <<"filters", "skip_with_tests">>, <<"auth", "telegram">>}
        Value(k, skip_tests) ==
            CASE k = <<"search", "max_pages">> -> 3
              [] k = <<"limits", "max_applications_per_session">> -> 3
              [] k = <<"filters", "skip_with_tests">> -> skip_tests
              [] k = <<"auth", "telegram">> -> <<"h">>
        Opts == {[k \in ks |-> Value(k, st)] : ks \in SUBSET Keys, st \in BOOLEAN}
    IN  /\ InitLedgerVars /\ InitSession
        /\ now = 0
        /\ cfg = "None"
        /\ gen = NoGen /\ cut = NoCut
        /\ \E f \in Files, o \in Opts, i \in BOOLEAN :
              cli = [pc |-> "run", file |-> f, opts |-> o, overrides |-> <<>>,
                     aliased |-> FALSE, interactive |-> i]

NextCli ==
    \/ LoadConfig
    \/ PromptTelegram
    \/ RunSessionReadsConfig

SpecCli == InitCli /\ [][NextCli]_vars

-----------------------------------------------------------------------------
(* Properties of the command-line overrides *)

\* Every key of cli_opts has its overriding value in the configuration
OverridesInEffect(config, opts) ==
    \A k \in DOMAIN opts : config[k[1]][k[2]] = opts[k]

\* C37: once _load_config(config_path, cli_opts) has returned, the
\* configuration that get_config() returns, and that run_session reads, has
\* the overriding value for every key of cli_opts.
C37_OverridesInEffect ==
    cli.pc \in {"loaded", "prompted", "session"} => OverridesInEffect(cfg, cli.opts)

\* What the code does: the session reads the configuration of the file
\* unless _load_config was called a second time after a first call that was
\* given options; then it reads the file with the options applied.
C37_OverridesOnlyAfterSecondLoad ==
    cli.pc = "session"
        => IF /\ <<"auth", "telegram">> \in DOMAIN cli.opts
              /\ cli.opts[<<"auth", "telegram">>] = <<"t", "g">>
              /\ DOMAIN cli.opts # {<<"auth", "telegram">>}
           THEN cfg = apply_overrides(cli.file, cli.opts)
           ELSE cfg = cli.file
=============================================================================
